---------------------------- MODULE Spec2Model ----------------------------
(***************************************************************************)
(* A model of the HiAnime MCP server (src/hianime_mcp_server.py): the tool *)
(* functions, the upstream client make_api_request and the text renderers. *)
(*                                                                         *)
(* Conventions.                                                            *)
(*  - A Python str that comes from outside the program (a tool argument,   *)
(*    a string inside an upstream JSON body, an exception message) is a    *)
(*    tuple of one-character strings, so that lower(), upper(), strip()    *)
(*    and split() are computed character by character.  Text the program   *)
(*    produces (results, log lines, endpoints) is a TLA+ string, built     *)
(*    with \o; Str turns the former into the latter.                       *)
(*  - A JSON value is a tagged record [t, v].                              *)
(*  - An Optional argument is <<>> (None) or <<value>>.                    *)
(*  - The value of a Python expression that may raise is a record          *)
(*    [kind, text]: kind "text" with the string, or kind "raise" with the  *)
(*    exception's type name.                                               *)
(*  - The characters outside ASCII of the program's literals (pictographs, *)
(*    arrows, bullets) and the backquotes are left out of the strings;     *)
(*    every other character of a literal is kept.                          *)
(***************************************************************************)
EXTENDS Integers, Sequences, FiniteSets, TLC

VARIABLES
    pc,        \* "idle" | "awaiting" | "answered" | "returned": where the call is
    tool,      \* name of the tool function being run ("" when idle)
    args,      \* its arguments
    requests,  \* the upstream HTTP requests the call has issued, in order
    outcome,   \* what the upstream call ended in
    result,    \* what the tool function returned or raised
    log        \* the lines the call wrote to the logger, in order

vars == <<pc, tool, args, requests, outcome, result, log>>

(***************************************************************************)
(* Python str primitives                                                   *)
(***************************************************************************)
UpperLetters == <<"A","B","C","D","E","F","G","H","I","J","K","L","M",
                  "N","O","P","Q","R","S","T","U","V","W","X","Y","Z">>

LowerLetters == <<"a","b","c","d","e","f","g","h","i","j","k","l","m",
                  "n","o","p","q","r","s","t","u","v","w","x","y","z">>

Whitespace == {" ", "\t", "\n", "\r"}

RECURSIVE Str(_)
Str(cs) == IF cs = <<>> THEN "" ELSE Head(cs) \o Str(Tail(cs))

lower_char(c) ==
    IF \E i \in 1..26 : UpperLetters[i] = c
    THEN LowerLetters[CHOOSE i \in 1..26 : UpperLetters[i] = c]
    ELSE c

upper_char(c) ==
    IF \E i \in 1..26 : LowerLetters[i] = c
    THEN UpperLetters[CHOOSE i \in 1..26 : LowerLetters[i] = c]
    ELSE c

lower(cs) == [i \in 1..Len(cs) |-> lower_char(cs[i])]

\* U+00DF, the lower-case letter whose upper case is the two characters 'SS'
\* (written here by its escape).
SharpS == "\\u00df"

\* str.upper(): character by character; the upper case of one character may
\* be longer than one character.
RECURSIVE upper(_)
upper(cs) ==
    IF cs = <<>> THEN <<>>
    ELSE (IF Head(cs) = SharpS THEN <<"S", "S">> ELSE <<upper_char(Head(cs))>>)
         \o upper(Tail(cs))

\* str.isalpha() of one character.
is_letter(c) ==
    \/ \E i \in 1..26 : UpperLetters[i] = c \/ LowerLetters[i] = c
    \/ c = SharpS

RECURSIVE lstrip(_)
lstrip(cs) ==
    IF cs # <<>> /\ Head(cs) \in Whitespace THEN lstrip(Tail(cs)) ELSE cs

RECURSIVE rstrip(_)
rstrip(cs) ==
    IF cs # <<>> /\ cs[Len(cs)] \in Whitespace
    THEN rstrip(SubSeq(cs, 1, Len(cs) - 1))
    ELSE cs

strip(cs) == rstrip(lstrip(cs))

\* str.title(): a letter that follows a non-letter is upper-cased, every
\* other letter lower-cased.
title(cs) ==
    [i \in 1..Len(cs) |->
        IF i = 1 \/ ~is_letter(cs[i - 1])
        THEN upper_char(cs[i])
        ELSE lower_char(cs[i])]

\* str.replace(old, new) for one-character old and new.
replace(cs, old, new) == [i \in 1..Len(cs) |-> IF cs[i] = old THEN new ELSE cs[i]]

\* cs.split(sep)[0]: everything before the first sep.
RECURSIVE split_first(_, _)
split_first(cs, sep) ==
    IF cs = <<>> \/ Head(cs) = sep
    THEN <<>>
    ELSE <<Head(cs)>> \o split_first(Tail(cs), sep)

\* cs.split(sep)[-1]: everything after the last sep.
RECURSIVE split_last(_, _)
split_last(cs, sep) ==
    IF cs = <<>> \/ cs[Len(cs)] = sep
    THEN <<>>
    ELSE split_last(SubSeq(cs, 1, Len(cs) - 1), sep) \o <<cs[Len(cs)]>>

Digits == <<"0","1","2","3","4","5","6","7","8","9">>

RECURSIVE NatStr(_)
NatStr(n) == IF n < 10 THEN Digits[n + 1] ELSE NatStr(n \div 10) \o Digits[(n % 10) + 1]

\* str(n) of a Python int.
IntStr(n) == IF n < 0 THEN "-" \o NatStr(-n) ELSE NatStr(n)

\* ', '.join(xs) of a tuple of strings.
RECURSIVE join_comma(_)
join_comma(xs) ==
    IF xs = <<>> THEN ""
    ELSE IF Len(xs) = 1 THEN xs[1]
    ELSE xs[1] \o ", " \o join_comma(Tail(xs))

\* x in xs, for a tuple of strings xs.
InList(x, xs) == \E i \in 1..Len(xs) : xs[i] = x

(***************************************************************************)
(* Values that may raise                                                   *)
(***************************************************************************)
Text(s) == [kind |-> "text", text |-> s]

Raise(exc) == [kind |-> "raise", text |-> exc]

NoResult == [kind |-> "none", text |-> ""]

\* a + b, evaluated left to right.
Cat(a, b) ==
    IF a.kind = "raise" THEN a
    ELSE IF b.kind = "raise" THEN b
    ELSE Text(a.text \o b.text)

(***************************************************************************)
(* JSON values, as response.json() returns them                            *)
(***************************************************************************)
JNull == [t |-> "null", v |-> 0]

JBool(b) == [t |-> "bool", v |-> b]

JInt(n) == [t |-> "int", v |-> n]

JStr(cs) == [t |-> "str", v |-> cs]

JList(xs) == [t |-> "list", v |-> xs]

JObj(f) == [t |-> "obj", v |-> f]

IsDict(j) == j.t = "obj"

IsStr(j) == j.t = "str"

IsInt(j) == j.t = "int"

\* bool(j)
Truthy(j) ==
    CASE j.t = "null" -> FALSE
      [] j.t = "bool" -> j.v
      [] j.t = "int" -> j.v # 0
      [] j.t = "str" -> j.v # <<>>
      [] j.t = "list" -> j.v # <<>>
      [] j.t = "obj" -> DOMAIN j.v # {}

\* d.get(key, default) of a dict d.
Get(d, key, default) == IF key \in DOMAIN d.v THEN d.v[key] ELSE default

\* d.get(key) of a dict d.
GetNone(d, key) == Get(d, key, JNull)

\* j == n of a JSON value and an int (True == 1 and False == 0 in Python).
PyEqInt(j, n) ==
    \/ j.t = "int" /\ j.v = n
    \/ j.t = "bool" /\ n = (IF j.v THEN 1 ELSE 0)

\* repr(j) of a str, int, bool or None, as it stands inside the repr of a list.
PyReprAtom(j) ==
    CASE j.t = "null" -> "None"
      [] j.t = "bool" -> IF j.v THEN "True" ELSE "False"
      [] j.t = "int" -> IntStr(j.v)
      [] j.t = "str" -> "'" \o Str(j.v) \o "'"
      [] OTHER -> "..."

\* str(j), as an f-string field {j} formats it.
PyStr(j) ==
    CASE j.t = "null" -> "None"
      [] j.t = "bool" -> IF j.v THEN "True" ELSE "False"
      [] j.t = "int" -> IntStr(j.v)
      [] j.t = "str" -> Str(j.v)
      [] j.t = "list" ->
            "[" \o join_comma([i \in 1..Len(j.v) |-> PyReprAtom(j.v[i])]) \o "]"
      [] j.t = "obj" -> IF DOMAIN j.v = {} THEN "{}" ELSE "{...}"

\* The elements a for loop over j visits: a list's items, a str's characters,
\* a dict's keys (as str values; their order is not modelled beyond one key).
IsIterable(j) == j.t \in {"list", "str", "obj"}

RECURSIVE SetToSeq(_)
SetToSeq(S) ==
    IF S = {} THEN <<>>
    ELSE LET x == CHOOSE y \in S : TRUE IN <<x>> \o SetToSeq(S \ {x})

Elements(j) ==
    CASE j.t = "list" -> j.v
      [] j.t = "str" -> [i \in 1..Len(j.v) |-> JStr(<<j.v[i]>>)]
      [] j.t = "obj" -> SetToSeq({JStr(<<k>>) : k \in DOMAIN j.v})
      [] OTHER -> <<>>

\* len(j); defined for the iterable values only.
PyLen(j) == IF j.t = "obj" THEN Cardinality(DOMAIN j.v) ELSE Len(j.v)

(***************************************************************************)
(* Module constants                                                        *)
(***************************************************************************)
AVAILABLE_GENRES ==
    <<"action", "adventure", "cars", "comedy", "dementia", "demons", "drama",
      "ecchi", "fantasy", "game", "harem", "historical", "horror", "isekai",
      "josei", "kids", "magic", "martial-arts", "mecha", "military", "music",
      "mystery", "parody", "police", "psychological", "romance", "samurai",
      "school", "sci-fi", "seinen", "shoujo", "shoujo-ai", "shounen",
      "shounen-ai", "slice-of-life", "space", "sports", "super-power",
      "supernatural", "thriller", "vampire">>

AVAILABLE_TYPES == <<"movie", "tv", "ova", "ona", "special", "music">>

AVAILABLE_STATUSES == <<"finished", "airing", "upcoming">>

AVAILABLE_RATINGS == <<"g", "pg", "pg-13", "r", "r+", "rx">>

AVAILABLE_SEASONS == <<"spring", "summer", "fall", "winter">>

AVAILABLE_SORT_OPTIONS ==
    <<"default", "recently_added", "recently_updated", "score",
      "name_az", "released_date", "most_watched">>

AVAILABLE_LANGUAGES == <<"sub", "dub">>

MAL_RANKING_TYPES ==
    <<"all", "airing", "upcoming", "tv", "movie", "bypopularity", "favorite">>

MAL_LIST_STATUSES == <<"watching", "completed", "on_hold", "dropped", "plan_to_watch">>

\* "=" * 50 + "\n"
Rule == "==================================================\n"

\* The literal 'N/A'.
NA == <<"N", "/", "A">>

(***************************************************************************)
(* Upstream: what one HTTP exchange can end in                             *)
(*   kind "timeout"   httpx.TimeoutException                               *)
(*        "status"    raise_for_status() raised HTTPStatusError (code)     *)
(*        "transport" any other exception of the exchange                  *)
(*        "notjson"   a 2xx response whose body response.json() rejects    *)
(*        "json"      a 2xx response with the JSON value body              *)
(*   msg is str(e) of the exception, where there is one.                   *)
(***************************************************************************)
HIANIME_API_BASE == "https://hianime-api-b6ix.onrender.com"

OutcomeOf(kind, code, msg, body) ==
    [kind |-> kind, code |-> code, msg |-> msg, body |-> body]

NoOutcome == OutcomeOf("none", 0, "", JNull)

GetRequest(endpoint, params) ==
    [method |-> "GET", path |-> endpoint, params |-> params, json |-> <<>>]

PostRequest(endpoint, payload) ==
    [method |-> "POST", path |-> endpoint, params |-> <<>>, json |-> payload]

\* make_api_request's return value: the JSON body, or None.
make_api_request(o) == IF o.kind = "json" THEN o.body ELSE JNull

\* The line make_api_request logs for the request to endpoint, if any.
make_api_request_log(endpoint, o) ==
    CASE o.kind = "timeout" ->
            <<"Request timeout for " \o HIANIME_API_BASE \o endpoint>>
      [] o.kind = "status" ->
            <<"HTTP error " \o IntStr(o.code) \o " for " \o HIANIME_API_BASE \o endpoint>>
      [] o.kind \in {"transport", "notjson"} ->
            <<"Request failed for " \o HIANIME_API_BASE \o endpoint \o ": " \o o.msg>>
      [] OTHER -> <<>>

\* `if not data or not data.get("success")`: "fail" when the branch is taken,
\* "raise" when data.get raises (data is truthy and no dict), else "ok".
SuccessGate(data) ==
    IF ~Truthy(data) THEN "fail"
    ELSE IF ~IsDict(data) THEN "raise"
    ELSE IF ~Truthy(GetNone(data, "success")) THEN "fail"
    ELSE "ok"

(***************************************************************************)
(* Renderers                                                               *)
(***************************************************************************)
\* The slug format_anime_item derives: a JSON value, or a raise.
anime_item_slug(item) ==
    LET slug == Get(item, "slug", JStr(<<>>))
        url == Get(item, "url", JStr(<<>>))
    IN  IF ~Truthy(slug) /\ Truthy(GetNone(item, "id"))
        THEN IF Truthy(url)
             THEN IF IsStr(url)
                  THEN [kind |-> "value",
                        value |-> JStr(split_last(split_first(url.v, "?"), "/"))]
                  ELSE [kind |-> "raise", value |-> JNull]
             ELSE [kind |-> "value", value |-> Get(item, "id", JStr(NA))]
        ELSE [kind |-> "value", value |-> slug]

\* The block format_anime_item builds once the slug is known.
anime_item_block(item, slug) ==
    LET url == Get(item, "url", JStr(<<>>))
        episodes == Get(item, "episodes", JObj(<<>>))
    IN  IF Truthy(url) /\ ~IsStr(url) THEN Raise("AttributeError")
        ELSE IF ~IsDict(episodes) THEN Raise("AttributeError")
        ELSE
          LET clean == IF Truthy(url) THEN split_first(url.v, "?") ELSE <<>>
              eps_sub == Get(item, "episodes_sub", Get(episodes, "sub", JStr(NA)))
              eps_dub == Get(item, "episodes_dub", Get(episodes, "dub", JStr(NA)))
              eps_display ==
                  "Sub: " \o PyStr(eps_sub)
                  \o (IF Truthy(eps_dub) THEN ", Dub: " \o PyStr(eps_dub) ELSE "")
          IN  Text("\n **" \o PyStr(Get(item, "title", JStr(<<"Unknown Title">>))) \o "**"
                   \o "\n    Slug: " \o PyStr(slug) \o "  Use this for episode lookup"
                   \o "\n    Type: " \o PyStr(Get(item, "type", JStr(NA)))
                   \o "\n    Episodes: " \o eps_display
                   \o "\n    Duration: " \o PyStr(Get(item, "duration", JStr(NA)))
                   \o (IF clean # <<>> THEN "\n    Page: " \o Str(clean) ELSE ""))

format_anime_item(item) ==
    IF ~IsDict(item) THEN Raise("AttributeError")
    ELSE LET s == anime_item_slug(item)
         IN  IF s.kind = "raise" THEN Raise("AttributeError")
             ELSE anime_item_block(item, s.value)

\* sep.join(rs) of the rendered items rs: the first that raises ends the join.
RECURSIVE join_items(_, _)
join_items(rs, sep) ==
    IF rs = <<>> THEN Text("")
    ELSE IF Len(rs) = 1 THEN rs[1]
    ELSE Cat(Cat(rs[1], Text(sep)), join_items(Tail(rs), sep))

\* The tuple xs[:n] of a tuple xs.
\* xs[:n] without the cut.
TakeAll(xs, n) == xs

Take(xs, n) == SubSeq(xs, 1, IF Len(xs) < n THEN Len(xs) ELSE n)

\* format_anime_list without its sentence for an empty list.
format_anime_list_without_empty_sentence(data) ==
    IF ~IsIterable(data) THEN Raise("TypeError")
    ELSE join_items([i \in 1..Len(Elements(data)) |-> format_anime_item(Elements(data)[i])], "\n")

format_anime_list(data) ==
    IF ~Truthy(data) THEN Text("No anime found.")
    ELSE IF ~IsIterable(data) THEN Raise("TypeError")
    ELSE join_items([i \in 1..Len(Elements(data)) |-> format_anime_item(Elements(data)[i])], "\n")

\* ', '.join(j): j must be iterable and hold only str.
PyJoin(j) ==
    IF ~IsIterable(j) THEN Raise("TypeError")
    ELSE LET xs == Elements(j)
         IN  IF \E i \in 1..Len(xs) : ~IsStr(xs[i]) THEN Raise("TypeError")
             ELSE Text(join_comma([i \in 1..Len(xs) |-> Str(xs[i].v)]))

\* ', '.join(d.get(key, [])) without the 'N/A' alternative.
join_unguarded(d, key) == PyJoin(Get(d, key, JList(<<>>)))

\* ', '.join(d.get(key, [])) if d.get(key) else 'N/A'
join_or_na(d, key) ==
    IF Truthy(GetNone(d, key)) THEN PyJoin(Get(d, key, JList(<<>>))) ELSE Text("N/A")

\* The text format_anime_details builds from anime_info and the three joined fields.
anime_details_block(a, genres, studios, producers) ==
    "\n **" \o PyStr(Get(a, "title", JStr(<<"Unknown Title">>))) \o "**\n"
    \o "\n **Basic Information:**"
    \o "\n   - Japanese Title: "
    \o PyStr(Get(a, "japanese_title", Get(a, "japaneseTitle", JStr(NA))))
    \o "\n   - Type: " \o PyStr(Get(a, "type", JStr(NA)))
    \o "\n   - Status: " \o PyStr(Get(a, "status", JStr(NA)))
    \o "\n   - Episodes: " \o PyStr(Get(a, "episodes", Get(a, "totalEpisodes", JStr(NA))))
    \o "\n   - Duration: " \o PyStr(Get(a, "duration", JStr(NA)))
    \o "\n   - Aired: " \o PyStr(Get(a, "aired", JStr(NA)))
    \o "\n   - Season: " \o PyStr(Get(a, "season", JStr(NA)))
    \o "\n   - Rating: " \o PyStr(Get(a, "rating", Get(a, "malscore", JStr(NA))))
    \o "\n\n **Synopsis:**\n"
    \o PyStr(Get(a, "synopsis", Get(a, "description", JStr(<<"No synopsis available.">>))))
    \o "\n\n **Genres:** " \o genres
    \o "\n\n **Studios:** " \o studios
    \o "\n\nicing **Producers:** " \o producers
    \o "\n"

format_anime_details(data) ==
    LET info == Get(data, "data", data)
    IN  IF ~IsDict(info) THEN Raise("AttributeError")
        ELSE LET anime_info == Get(info, "anime", info)
             IN  IF ~IsDict(anime_info) THEN Raise("AttributeError")
                 ELSE LET genres == join_or_na(anime_info, "genres")
                          studios == join_or_na(anime_info, "studios")
                          producers == join_or_na(anime_info, "producers")
                      IN  IF genres.kind = "raise" THEN genres
                          ELSE IF studios.kind = "raise" THEN studios
                          ELSE IF producers.kind = "raise" THEN producers
                          ELSE Text(anime_details_block(anime_info, genres.text,
                                                        studios.text, producers.text))

\* data[:n] is defined for a list and a str.
IsSliceable(j) == j.t \in {"list", "str"}

\* The first episodes format_episode_list renders, and the entries of the
\* user's list format_mal_user_animelist renders.
EPISODE_CUTOFF == 20

USER_LIST_CUTOFF == 25

episode_line(ep) ==
    IF ~IsDict(ep) THEN Raise("AttributeError")
    ELSE
      LET ep_num == Get(ep, "number", Get(ep, "episodeNum", JStr(NA)))
          ep_title == Get(ep, "title", Get(ep, "name", JStr(NA)))
          japanese_title == Get(ep, "japanese_title", JStr(<<>>))
          ep_id == Get(ep, "id", JStr(<<>>))
          url == Get(ep, "url", JStr(<<>>))
          is_filler ==
              IF Truthy(Get(ep, "is_filler", Get(ep, "isFiller", JBool(FALSE))))
              THEN "  Filler" ELSE ""
      IN  Text("   Episode " \o PyStr(ep_num) \o ": " \o PyStr(ep_title)
               \o (IF Truthy(japanese_title)
                   THEN " (" \o PyStr(japanese_title) \o ")" ELSE "")
               \o is_filler
               \o (IF Truthy(url) THEN "\n       Reference: " \o PyStr(url) ELSE "")
               \o (IF Truthy(ep_id) THEN "\n       ID: " \o PyStr(ep_id) ELSE ""))

format_episode_list(data) ==
    IF ~Truthy(data) THEN Text("No episodes found.")
    ELSE IF ~IsSliceable(data) THEN Raise("TypeError")
    ELSE Cat(join_items([i \in 1..Len(Take(Elements(data), EPISODE_CUTOFF)) |->
                            episode_line(Elements(data)[i])], "\n\n"),
             Text(IF PyLen(data) > EPISODE_CUTOFF
                  THEN "\n\n... and " \o IntStr(PyLen(data) - EPISODE_CUTOFF)
                       \o " more episodes."
                  ELSE ""))

format_mal_anime_item(item) ==
    IF ~IsDict(item) THEN Raise("AttributeError")
    ELSE
      LET node == Get(item, "node", item)
      IN  IF ~IsDict(node) THEN Raise("AttributeError")
          ELSE IF ~IsDict(Get(node, "main_picture", JObj(<<>>)))
          THEN Raise("AttributeError")
          ELSE IF ~IsDict(Get(item, "ranking", JObj(<<>>)))
          THEN Raise("AttributeError")
          ELSE
            LET mal_id == Get(node, "id", JStr(NA))
                rank == Get(Get(item, "ranking", JObj(<<>>)), "rank", JStr(<<>>))
            IN  Text("\n **" \o PyStr(Get(node, "title", JStr(<<"Unknown Title">>)))
                     \o "**"
                     \o "\n    MAL ID: " \o PyStr(mal_id)
                     \o "  Use this for MAL details lookup"
                     \o "\n    MAL URL: https://myanimelist.net/anime/" \o PyStr(mal_id)
                     \o (IF Truthy(rank) THEN "\n    Rank: #" \o PyStr(rank) ELSE ""))

format_mal_anime_list(data) ==
    IF ~Truthy(data) THEN Text("No anime found.")
    ELSE IF ~IsIterable(data) THEN Raise("TypeError")
    ELSE join_items([i \in 1..Len(Elements(data)) |-> format_mal_anime_item(Elements(data)[i])],
                    "\n")

\* Three decimal digits, zero-padded.
Pad3(n) == (IF n < 100 THEN "0" ELSE "") \o (IF n < 10 THEN "0" ELSE "") \o NatStr(n)

RECURSIVE NatComma(_)
NatComma(n) ==
    IF n < 1000 THEN NatStr(n) ELSE NatComma(n \div 1000) \o "," \o Pad3(n % 1000)

\* f"{j:,}": the thousands-separator format is defined for numbers only.
format_thousands(j) ==
    CASE j.t = "int" -> Text(IF j.v < 0 THEN "-" \o NatComma(-j.v) ELSE NatComma(j.v))
      [] j.t = "bool" -> Text(IF j.v THEN "1" ELSE "0")
      [] j.t = "str" -> Raise("ValueError")
      [] OTHER -> Raise("TypeError")

\* What `[x.get('name', '') for x in xs] if xs else []` raises for
\* xs = d.get(key, []): "" when it raises nothing.
mal_names_fault(d, key) ==
    LET xs == Get(d, key, JList(<<>>))
    IN  IF ~Truthy(xs) THEN ""
        ELSE IF ~IsIterable(xs) THEN "TypeError"
        ELSE IF \E i \in 1..Len(Elements(xs)) : ~IsDict(Elements(xs)[i])
        THEN "AttributeError"
        ELSE ""

\* ', '.join(names) if names else 'N/A', for the names of d.get(key, []).
mal_names(d, key) ==
    LET xs == Get(d, key, JList(<<>>))
    IN  IF ~Truthy(xs) THEN Text("N/A")
        ELSE PyJoin(JList([i \in 1..Len(Elements(xs)) |->
                              Get(Elements(xs)[i], "name", JStr(<<>>))]))

format_mal_anime_details(data) ==
    IF ~Truthy(data) THEN Text("No details available.")
    ELSE IF ~IsDict(data) THEN Raise("AttributeError")
    ELSE
      LET genre_names == mal_names(data, "genres")
          studio_names == mal_names(data, "studios")
          alt_titles == Get(data, "alternative_titles", JObj(<<>>))
          start_season == Get(data, "start_season", JObj(<<>>))
          scoring == format_thousands(Get(data, "num_scoring_users", JStr(NA)))
          listing == format_thousands(Get(data, "num_list_users", JStr(NA)))
      IN  IF mal_names_fault(data, "genres") # ""
          THEN Raise(mal_names_fault(data, "genres"))
          ELSE IF mal_names_fault(data, "studios") # ""
          THEN Raise(mal_names_fault(data, "studios"))
          ELSE IF ~IsDict(alt_titles) \/ ~IsDict(start_season)
          THEN Raise("AttributeError")
          ELSE
            LET season == Get(start_season, "season", JStr(<<>>))
                year == Get(start_season, "year", JStr(<<>>))
                mal_id == Get(data, "id", JStr(NA))
            IN  IF Truthy(season) /\ Truthy(year) /\ ~IsStr(season)
                THEN Raise("AttributeError")
                ELSE IF scoring.kind = "raise" THEN scoring
                ELSE IF listing.kind = "raise" THEN listing
                ELSE IF genre_names.kind = "raise" THEN genre_names
                ELSE IF studio_names.kind = "raise" THEN studio_names
                ELSE Text(
                    "\n **" \o PyStr(Get(data, "title", JStr(<<"Unknown Title">>)))
                    \o "** (MAL)\n"
                    \o "\n **Basic Information:**"
                    \o "\n   - MAL ID: " \o PyStr(mal_id)
                    \o "\n   - English Title: " \o PyStr(Get(alt_titles, "en", JStr(NA)))
                    \o "\n   - Japanese Title: " \o PyStr(Get(alt_titles, "ja", JStr(NA)))
                    \o "\n   - Type: " \o PyStr(Get(data, "media_type", JStr(NA)))
                    \o "\n   - Status: " \o PyStr(Get(data, "status", JStr(NA)))
                    \o "\n   - Episodes: " \o PyStr(Get(data, "num_episodes", JStr(NA)))
                    \o "\n   - Season: "
                    \o (IF Truthy(season) /\ Truthy(year)
                        THEN Str(title(season.v)) \o " " \o PyStr(year)
                        ELSE "N/A")
                    \o "\n   - Aired: " \o PyStr(Get(data, "start_date", JStr(NA)))
                    \o " to " \o PyStr(Get(data, "end_date", JStr(NA)))
                    \o "\n   - Rating: " \o PyStr(Get(data, "rating", JStr(NA)))
                    \o "\n   - Source: " \o PyStr(Get(data, "source", JStr(NA)))
                    \o "\n\n **Scores & Rankings:**"
                    \o "\n   - Mean Score: " \o PyStr(Get(data, "mean", JStr(NA))) \o "/10"
                    \o "\n   - Rank: #" \o PyStr(Get(data, "rank", JStr(NA)))
                    \o "\n   - Popularity: #" \o PyStr(Get(data, "popularity", JStr(NA)))
                    \o "\n   - Scoring Users: " \o scoring.text
                    \o "\n   - List Users: " \o listing.text
                    \o "\n\n **Synopsis:**\n"
                    \o PyStr(Get(data, "synopsis", JStr(<<"No synopsis available.">>)))
                    \o "\n\n **Genres:** " \o genre_names.text
                    \o "\n\n **Studios:** " \o studio_names.text
                    \o "\n\n **MAL URL:** https://myanimelist.net/anime/" \o PyStr(mal_id)
                    \o "\n")

(***************************************************************************)
(* The call state machine                                                  *)
(***************************************************************************)
HasLen(j) == j.t \in {"list", "str", "obj"}

\* The tool function ran up to its upstream request and awaits the answer.
\* The call with its request sent a second time.
Start_with_retry(t, a, req, lines) ==
    /\ pc = "idle"
    /\ pc' = "awaiting"
    /\ tool' = t
    /\ args' = a
    /\ requests' = <<req, req>>
    /\ log' = lines
    /\ UNCHANGED <<outcome, result>>

Start(t, a, req, lines) ==
    /\ pc = "idle"
    /\ pc' = "awaiting"
    /\ tool' = t
    /\ args' = a
    /\ requests' = <<req>>
    /\ log' = lines
    /\ UNCHANGED <<outcome, result>>

\* The tool function returned text without any upstream request.
ReturnEarly(t, a, lines, text) ==
    /\ pc = "idle"
    /\ pc' = "returned"
    /\ tool' = t
    /\ args' = a
    /\ requests' = <<>>
    /\ log' = lines
    /\ result' = Text(text)
    /\ UNCHANGED outcome

\* The tool function resumed with the upstream outcome and returned or raised.
Finish(t, res, lines) ==
    /\ pc = "answered"
    /\ tool = t
    /\ pc' = "returned"
    /\ result' = res
    /\ log' = log \o lines
    /\ UNCHANGED <<tool, args, requests, outcome>>

\* A GET tool resumes: make_api_request logs its failure, the tool renders.
FinishGet(t, res) == Finish(t, res, make_api_request_log(requests[1].path, outcome))

\* The three-way branch every GET tool starts with after the request.
AfterGate(data, failure, rendered) ==
    CASE SuccessGate(data) = "fail" -> Text(failure)
      [] SuccessGate(data) = "raise" -> Raise("AttributeError")
      [] OTHER -> rendered

\* count = data.get("count", len(anime_list)), then the heading, which shows
\* the count between before and after, the rule and the formatted list.
list_block(data, anime_list, before, after, formatted) ==
    IF ~HasLen(anime_list) THEN Raise("TypeError")
    ELSE Cat(Text(before \o PyStr(Get(data, "count", JInt(PyLen(anime_list))))
                  \o after \o Rule),
             formatted)

(***************************************************************************)
(* HiAnime tools                                                           *)
(***************************************************************************)
search_anime_result(a, data) ==
    AfterGate(data,
        "Unable to search for '" \o Str(a.keyword) \o "'. Please try again later.",
        LET anime_list == Get(data, "data", JList(<<>>))
            before ==
                " **Search Results for '" \o Str(a.keyword) \o "'** (Page "
                \o PyStr(Get(data, "page", JInt(a.page))) \o ", "
            after == " results)\n"
        IN  IF ~HasLen(anime_list) THEN Raise("TypeError")
            ELSE IF ~Truthy(anime_list)
            THEN Text("No anime found for '" \o Str(a.keyword) \o "'.")
            ELSE list_block(data, anime_list, before, after, format_anime_list(anime_list)))

\* The six browse tools differ in their noun, path and heading only.
BrowseTools ==
    [get_popular_anime |->
        [noun |-> "popular", path |-> "/api/popular", heading |-> "Most Popular Anime"],
     get_top_airing_anime |->
        [noun |-> "top airing", path |-> "/api/top-airing",
         heading |-> "Currently Airing Anime"],
     get_recently_updated_anime |->
        [noun |-> "recently updated", path |-> "/api/recently-updated",
         heading |-> "Recently Updated Anime"],
     get_completed_anime |->
        [noun |-> "completed", path |-> "/api/completed", heading |-> "Completed Anime"],
     get_subbed_anime |->
        [noun |-> "subbed", path |-> "/api/subbed", heading |-> "Subbed Anime"],
     get_dubbed_anime |->
        [noun |-> "dubbed", path |-> "/api/dubbed", heading |-> "Dubbed Anime"]]

browse_result(t, a, data) ==
    AfterGate(data,
        "Unable to fetch " \o BrowseTools[t].noun \o " anime. Please try again later.",
        LET anime_list == Get(data, "data", JList(<<>>))
            before ==
                " **" \o BrowseTools[t].heading \o "** (Page " \o IntStr(a.page)
                \o ", "
            after == " results)\n"
        IN  list_block(data, anime_list, before, after, format_anime_list(anime_list)))

get_anime_by_genre_result(a, data) ==
    AfterGate(data,
        "Unable to fetch anime for genre '" \o Str(a.genre) \o "'. Please try again later.",
        LET anime_list == Get(data, "data", JList(<<>>))
            before ==
                " **" \o Str(title(a.genre)) \o " Anime** (Page " \o IntStr(a.page)
                \o ", "
            after == " results)\n"
        IN  list_block(data, anime_list, before, after, format_anime_list(anime_list)))

get_anime_by_type_result(a, data) ==
    AfterGate(data,
        "Unable to fetch anime for type '" \o Str(a.anime_type)
        \o "'. Please try again later.",
        LET anime_list == Get(data, "data", JList(<<>>))
            before ==
                " **" \o Str(upper(a.anime_type)) \o " Anime** (Page " \o IntStr(a.page)
                \o ", "
            after == " results)\n"
        IN  list_block(data, anime_list, before, after, format_anime_list(anime_list)))

get_anime_details_result(a, data) ==
    AfterGate(data,
        "Unable to fetch details for anime '" \o Str(a.slug)
        \o "'. Please check the slug and try again.",
        format_anime_details(data))

get_anime_episodes_result(a, data) ==
    AfterGate(data,
        "Unable to fetch episodes for anime '" \o Str(a.slug)
        \o "'. Please check the slug and try again.",
        LET episodes == Get(data, "data", JList(<<>>))
            before ==
                " **Episodes for " \o Str(a.slug) \o "** ("
            after == " total episodes)\n"
        IN  list_block(data, episodes, before, after, format_episode_list(episodes)))

\* The last entry of episodes whose 'number' equals n: its index, or 0.
find_last_episode(episodes, n) ==
    IF \E i \in 1..Len(episodes) : PyEqInt(GetNone(episodes[i], "number"), n)
    THEN CHOOSE i \in 1..Len(episodes) :
            /\ PyEqInt(GetNone(episodes[i], "number"), n)
            /\ \A j \in (i + 1)..Len(episodes) :
                    ~PyEqInt(GetNone(episodes[j], "number"), n)
    ELSE 0

\* The first entry of episodes whose 'number' equals n: its index, or 0.
find_episode(episodes, n) ==
    IF \E i \in 1..Len(episodes) : PyEqInt(GetNone(episodes[i], "number"), n)
    THEN CHOOSE i \in 1..Len(episodes) :
            /\ PyEqInt(GetNone(episodes[i], "number"), n)
            /\ \A j \in 1..(i - 1) : ~PyEqInt(GetNone(episodes[j], "number"), n)
    ELSE 0

\* The loop `for ep in episodes: if ep.get('number') == n: ...; break` raises
\* when an entry it visits before the match is no dict.
find_episode_raises(episodes, n) ==
    \E i \in 1..Len(episodes) :
        /\ ~IsDict(episodes[i])
        /\ \A j \in 1..(i - 1) : ~PyEqInt(GetNone(episodes[j], "number"), n)

get_episode_info_result(a, data) ==
    AfterGate(data,
        "Unable to fetch episodes for anime '" \o Str(a.slug)
        \o "'. Please check the slug and try again.",
        LET episodes == Get(data, "data", JList(<<>>))
        IN  IF ~IsIterable(episodes) THEN Raise("TypeError")
            ELSE IF find_episode_raises(Elements(episodes), a.episode_number)
            THEN Raise("AttributeError")
            ELSE
              LET k == find_episode(Elements(episodes), a.episode_number)
                  episode == Elements(episodes)[k]
              IN  IF k = 0 \/ ~Truthy(episode)
                  THEN Text("Episode " \o IntStr(a.episode_number) \o " not found for '"
                            \o Str(a.slug) \o "'. This anime has "
                            \o IntStr(PyLen(episodes)) \o " episodes (1-"
                            \o IntStr(PyLen(episodes)) \o ").")
                  ELSE Text("\n **" \o Str(a.slug) \o " - Episode "
                            \o IntStr(a.episode_number) \o "**\n"
                            \o "\n **Title:** " \o PyStr(Get(episode, "title", JStr(NA)))
                            \o "\n **Japanese Title:** "
                            \o (IF Truthy(Get(episode, "japanese_title", JStr(<<>>)))
                                THEN PyStr(Get(episode, "japanese_title", JStr(<<>>)))
                                ELSE "N/A")
                            \o "\n **Page:** " \o PyStr(Get(episode, "url", JStr(NA)))
                            \o "\n **ID:** " \o PyStr(Get(episode, "id", JStr(NA)))
                            \o "\n **Is Filler:** "
                            \o (IF Truthy(Get(episode, "is_filler", JBool(FALSE)))
                                THEN "Yes " ELSE "No")
                            \o "\n"))

get_anime_az_list_result(a, data) ==
    AfterGate(data,
        "Unable to fetch anime for letter '" \o Str(a.letter) \o "'. Please try again later.",
        LET anime_list == Get(data, "data", JList(<<>>))
            before ==
                " **Anime Starting with '" \o Str(strip(upper(a.letter)))
                \o "'** (Page " \o IntStr(a.page) \o ", "
            after == " results)\n"
        IN  list_block(data, anime_list, before, after, format_anime_list(anime_list)))

get_anime_by_producer_result(a, data) ==
    AfterGate(data,
        "Unable to fetch anime for producer '" \o Str(a.producer_slug)
        \o "'. Please check the producer slug and try again.",
        LET anime_list == Get(data, "data", JList(<<>>))
            before ==
                " **Anime by " \o Str(title(replace(a.producer_slug, "-", " ")))
                \o "** (Page " \o IntStr(a.page) \o ", "
            after == " results)\n"
        IN  list_block(data, anime_list, before, after, format_anime_list(anime_list)))

\* bool(x) of an Optional[str] argument: None and '' are falsy.
Supplied(opt) == opt # <<>> /\ opt[1] # <<>>

\* filter_anime's checks with the score range starting at 0.
filter_anime_error_score_from_zero(a) ==
    IF Supplied(a.anime_type) /\ ~InList(Str(lower(a.anime_type[1])), AVAILABLE_TYPES)
    THEN "Invalid type '" \o Str(a.anime_type[1]) \o "'. Available: "
         \o join_comma(AVAILABLE_TYPES)
    ELSE IF Supplied(a.status) /\ ~InList(Str(lower(a.status[1])), AVAILABLE_STATUSES)
    THEN "Invalid status '" \o Str(a.status[1]) \o "'. Available: "
         \o join_comma(AVAILABLE_STATUSES)
    ELSE IF Supplied(a.rated) /\ ~InList(Str(lower(a.rated[1])), AVAILABLE_RATINGS)
    THEN "Invalid rating '" \o Str(a.rated[1]) \o "'. Available: "
         \o join_comma(AVAILABLE_RATINGS)
    ELSE IF a.score # <<>> /\ ~(0 <= a.score[1] /\ a.score[1] <= 10)
    THEN "Score must be between 1 and 10."
    ELSE IF Supplied(a.season) /\ ~InList(Str(lower(a.season[1])), AVAILABLE_SEASONS)
    THEN "Invalid season '" \o Str(a.season[1]) \o "'. Available: "
         \o join_comma(AVAILABLE_SEASONS)
    ELSE IF Supplied(a.language) /\ ~InList(Str(lower(a.language[1])), AVAILABLE_LANGUAGES)
    THEN "Invalid language. Available: sub, dub"
    ELSE IF Supplied(a.sort) /\ ~InList(Str(lower(a.sort[1])), AVAILABLE_SORT_OPTIONS)
    THEN "Invalid sort '" \o Str(a.sort[1]) \o "'. Available: "
         \o join_comma(AVAILABLE_SORT_OPTIONS)
    ELSE ""

\* filter_anime's checks with the check of sort left out.
filter_anime_error_without_sort(a) ==
    IF Supplied(a.anime_type) /\ ~InList(Str(lower(a.anime_type[1])), AVAILABLE_TYPES)
    THEN "Invalid type '" \o Str(a.anime_type[1]) \o "'. Available: "
         \o join_comma(AVAILABLE_TYPES)
    ELSE IF Supplied(a.status) /\ ~InList(Str(lower(a.status[1])), AVAILABLE_STATUSES)
    THEN "Invalid status '" \o Str(a.status[1]) \o "'. Available: "
         \o join_comma(AVAILABLE_STATUSES)
    ELSE IF Supplied(a.rated) /\ ~InList(Str(lower(a.rated[1])), AVAILABLE_RATINGS)
    THEN "Invalid rating '" \o Str(a.rated[1]) \o "'. Available: "
         \o join_comma(AVAILABLE_RATINGS)
    ELSE IF a.score # <<>> /\ ~(1 <= a.score[1] /\ a.score[1] <= 10)
    THEN "Score must be between 1 and 10."
    ELSE IF Supplied(a.season) /\ ~InList(Str(lower(a.season[1])), AVAILABLE_SEASONS)
    THEN "Invalid season '" \o Str(a.season[1]) \o "'. Available: "
         \o join_comma(AVAILABLE_SEASONS)
    ELSE IF Supplied(a.language) /\ ~InList(Str(lower(a.language[1])), AVAILABLE_LANGUAGES)
    THEN "Invalid language. Available: sub, dub"
    ELSE ""

\* filter_anime's checks, in the order of the code: the first that fails gives
\* the text returned, "" when none fails.
filter_anime_error(a) ==
    IF Supplied(a.anime_type) /\ ~InList(Str(lower(a.anime_type[1])), AVAILABLE_TYPES)
    THEN "Invalid type '" \o Str(a.anime_type[1]) \o "'. Available: "
         \o join_comma(AVAILABLE_TYPES)
    ELSE IF Supplied(a.status) /\ ~InList(Str(lower(a.status[1])), AVAILABLE_STATUSES)
    THEN "Invalid status '" \o Str(a.status[1]) \o "'. Available: "
         \o join_comma(AVAILABLE_STATUSES)
    ELSE IF Supplied(a.rated) /\ ~InList(Str(lower(a.rated[1])), AVAILABLE_RATINGS)
    THEN "Invalid rating '" \o Str(a.rated[1]) \o "'. Available: "
         \o join_comma(AVAILABLE_RATINGS)
    ELSE IF a.score # <<>> /\ ~(1 <= a.score[1] /\ a.score[1] <= 10)
    THEN "Score must be between 1 and 10."
    ELSE IF Supplied(a.season) /\ ~InList(Str(lower(a.season[1])), AVAILABLE_SEASONS)
    THEN "Invalid season '" \o Str(a.season[1]) \o "'. Available: "
         \o join_comma(AVAILABLE_SEASONS)
    ELSE IF Supplied(a.language) /\ ~InList(Str(lower(a.language[1])), AVAILABLE_LANGUAGES)
    THEN "Invalid language. Available: sub, dub"
    ELSE IF Supplied(a.sort) /\ ~InList(Str(lower(a.sort[1])), AVAILABLE_SORT_OPTIONS)
    THEN "Invalid sort '" \o Str(a.sort[1]) \o "'. Available: "
         \o join_comma(AVAILABLE_SORT_OPTIONS)
    ELSE ""

\* The query parameters filter_anime builds.
filter_anime_params(a) ==
    LET keys == {"page"}
                \cup (IF Supplied(a.anime_type) THEN {"type"} ELSE {})
                \cup (IF Supplied(a.status) THEN {"status"} ELSE {})
                \cup (IF Supplied(a.rated) THEN {"rated"} ELSE {})
                \cup (IF a.score # <<>> THEN {"score"} ELSE {})
                \cup (IF Supplied(a.season) THEN {"season"} ELSE {})
                \cup (IF Supplied(a.language) THEN {"language"} ELSE {})
                \cup (IF Supplied(a.genres) THEN {"genres"} ELSE {})
                \cup (IF Supplied(a.sort) THEN {"sort"} ELSE {})
    IN  [k \in keys |->
            CASE k = "page" -> JInt(a.page)
              [] k = "type" -> JStr(lower(a.anime_type[1]))
              [] k = "status" -> JStr(lower(a.status[1]))
              [] k = "rated" -> JStr(lower(a.rated[1]))
              [] k = "score" -> JInt(a.score[1])
              [] k = "season" -> JStr(lower(a.season[1]))
              [] k = "language" -> JStr(lower(a.language[1]))
              [] k = "genres" -> JStr(lower(a.genres[1]))
              [] k = "sort" -> JStr(lower(a.sort[1]))]

\* filters_applied, in the order the code appends.
filter_anime_applied(a) ==
    (IF Supplied(a.anime_type) THEN <<"Type: " \o Str(a.anime_type[1])>> ELSE <<>>)
    \o (IF Supplied(a.status) THEN <<"Status: " \o Str(a.status[1])>> ELSE <<>>)
    \o (IF Supplied(a.rated) THEN <<"Rated: " \o Str(a.rated[1])>> ELSE <<>>)
    \o (IF a.score # <<>> THEN <<"Min Score: " \o IntStr(a.score[1])>> ELSE <<>>)
    \o (IF Supplied(a.season) THEN <<"Season: " \o Str(a.season[1])>> ELSE <<>>)
    \o (IF Supplied(a.language) THEN <<"Language: " \o Str(a.language[1])>> ELSE <<>>)
    \o (IF Supplied(a.genres) THEN <<"Genres: " \o Str(a.genres[1])>> ELSE <<>>)
    \o (IF Supplied(a.sort) THEN <<"Sort: " \o Str(a.sort[1])>> ELSE <<>>)

filter_anime_result(a, data) ==
    AfterGate(data,
        "Unable to filter anime. Please try again later.",
        LET anime_list == Get(data, "data", JList(<<>>))
            before ==
                " **Filtered Anime** ("
                \o (IF filter_anime_applied(a) # <<>>
                    THEN join_comma(filter_anime_applied(a)) ELSE "No filters")
                \o ")\n" \o "Page " \o IntStr(a.page) \o ", "
            after == " results\n"
        IN  list_block(data, anime_list, before, after, format_anime_list(anime_list)))

check_api_health_result(data) ==
    IF data # JNull
    THEN Text(" HiAnime API is healthy and responding!")
    ELSE Text(" HiAnime API is not responding. Please try again later.")

get_available_filters_text ==
    "\n **Available Filter Options for HiAnime MCP Server**\n"
    \o "\n **Genres:**\n" \o join_comma(AVAILABLE_GENRES) \o "\n"
    \o "\n **Types:**\n" \o join_comma(AVAILABLE_TYPES) \o "\n"
    \o "\n **Statuses:**\n" \o join_comma(AVAILABLE_STATUSES) \o "\n"
    \o "\n **Ratings:**\n" \o join_comma(AVAILABLE_RATINGS) \o "\n"
    \o "\n **Seasons:**\n" \o join_comma(AVAILABLE_SEASONS) \o "\n"
    \o "\n **Sort Options:**\n" \o join_comma(AVAILABLE_SORT_OPTIONS) \o "\n"
    \o "\n **Languages:**\nsub, dub\n"
    \o "\n **Tips:**\n"
    \o "- Use 'search_anime' to find anime by name\n"
    \o "- Use 'get_anime_details' with the slug from search results to get full details\n"
    \o "- Use 'filter_anime' to combine multiple filters\n"
    \o "- Use 'get_anime_episodes' to see all episodes of an anime\n"
    \o "- Use 'mal_search' for MyAnimeList search with scores and rankings\n"
    \o "- Use 'combined_search' to search both HiAnime and MAL simultaneously\n"

(***************************************************************************)
(* MyAnimeList tools                                                       *)
(***************************************************************************)
Min(x, y) == IF x < y THEN x ELSE y

Max(x, y) == IF x > y THEN x ELSE y

\* min(hi, limit): the clamp without its lower end.
clamp_limit_upper_only(limit, hi) == Min(hi, limit)

\* max(1, min(hi, limit))
clamp_limit(limit, hi) == Max(1, Min(hi, limit))

MAL_LIMIT_MAX == 100

COMBINED_LIMIT_MAX == 20

format_mal_user_item(item) ==
    IF ~IsDict(item) THEN Raise("AttributeError")
    ELSE
      LET node == Get(item, "node", JObj(<<>>))
          list_status == Get(item, "list_status", JObj(<<>>))
      IN  IF ~IsDict(node) \/ ~IsDict(list_status) THEN Raise("AttributeError")
          ELSE
            LET status == Get(list_status, "status", JStr(NA))
                score == Get(list_status, "score", JInt(0))
                watched_eps == Get(list_status, "num_episodes_watched", JInt(0))
            IN  IF score.t \notin {"int", "bool"} THEN Raise("TypeError")
                ELSE IF ~IsStr(status) THEN Raise("AttributeError")
                ELSE Text(
                    "\n **" \o PyStr(Get(node, "title", JStr(<<"Unknown Title">>))) \o "**"
                    \o "\n    MAL ID: " \o PyStr(Get(node, "id", JStr(NA)))
                    \o "\n    Status: " \o Str(title(replace(status.v, "_", " ")))
                    \o "\n    Score: "
                    \o (IF (score.t = "int" /\ score.v > 0) \/ (score.t = "bool" /\ score.v)
                        THEN " " \o PyStr(score) \o "/10" ELSE "Not rated")
                    \o "\n    Episodes Watched: " \o PyStr(watched_eps))

format_mal_user_animelist(data) ==
    IF ~Truthy(data) THEN Text("No anime in list.")
    ELSE IF ~IsSliceable(data) THEN Raise("TypeError")
    ELSE Cat(join_items([i \in 1..Len(Take(Elements(data), USER_LIST_CUTOFF)) |->
                            format_mal_user_item(Elements(data)[i])], "\n"),
             Text(IF PyLen(data) > USER_LIST_CUTOFF
                  THEN "\n\n... and " \o IntStr(PyLen(data) - USER_LIST_CUTOFF)
                       \o " more anime."
                  ELSE ""))

mal_search_result(a, data) ==
    AfterGate(data,
        "Unable to search MAL for '" \o Str(a.query) \o "'. Please try again later.",
        LET anime_list == Get(data, "data", JList(<<>>))
        IN  IF ~Truthy(anime_list)
            THEN Text("No anime found on MAL for '" \o Str(a.query) \o "'.")
            ELSE IF ~HasLen(anime_list) THEN Raise("TypeError")
            ELSE Cat(Text(" **MAL Search Results for '" \o Str(a.query) \o "'** ("
                          \o IntStr(PyLen(anime_list)) \o " results)\n" \o Rule),
                     format_mal_anime_list(anime_list)))

mal_anime_details_result(a, data) ==
    AfterGate(data,
        "Unable to fetch MAL details for anime ID '" \o IntStr(a.mal_id)
        \o "'. Please check the ID and try again.",
        format_mal_anime_details(Get(data, "data", JObj(<<>>))))

ranking_titles ==
    [all |-> "Top Anime Series", airing |-> "Top Airing Anime",
     upcoming |-> "Top Upcoming Anime", tv |-> "Top TV Series",
     movie |-> "Top Movies", bypopularity |-> "Most Popular",
     favorite |-> "Most Favorited"]

mal_ranking_result(a, data) ==
    AfterGate(data,
        "Unable to fetch MAL rankings. Please try again later.",
        LET anime_list == Get(data, "data", JList(<<>>))
            ranking_lower == Str(strip(lower(a.ranking_type)))
        IN  IF ~Truthy(anime_list) THEN Text("No rankings available.")
            ELSE IF ~HasLen(anime_list) THEN Raise("TypeError")
            ELSE Cat(Text(" **MAL "
                          \o (IF ranking_lower \in DOMAIN ranking_titles
                              THEN ranking_titles[ranking_lower] ELSE "Rankings")
                          \o "** (Top " \o IntStr(PyLen(anime_list)) \o ")\n" \o Rule),
                     format_mal_anime_list(anime_list)))

mal_seasonal_result(a, data) ==
    AfterGate(data,
        "Unable to fetch MAL seasonal anime. Please try again later.",
        LET anime_list == Get(data, "data", JList(<<>>))
        IN  IF ~Truthy(anime_list)
            THEN Text("No anime found for " \o Str(title(a.season)) \o " "
                      \o IntStr(a.year) \o ".")
            ELSE IF ~HasLen(anime_list) THEN Raise("TypeError")
            ELSE Cat(Text(" **MAL " \o Str(title(a.season)) \o " " \o IntStr(a.year)
                          \o " Anime** (" \o IntStr(PyLen(anime_list)) \o " results)\n"
                          \o Rule),
                     format_mal_anime_list(anime_list)))

\* combined_search's rendering with nothing written for an empty side.
combined_search_result_without_empty_lines(a, data) ==
    AfterGate(data,
        "Unable to perform combined search for '" \o Str(a.query)
        \o "'. Please try again later.",
        LET result_data == Get(data, "data", JObj(<<>>))
        IN  IF ~IsDict(result_data) THEN Raise("AttributeError")
            ELSE
              LET hianime_results == Get(result_data, "hianime", JList(<<>>))
                  mal_results == Get(result_data, "mal", JList(<<>>))
              IN  Cat(Cat(Cat(Text(" **Combined Search Results for '" \o Str(a.query)
                                   \o "'**\n" \o Rule \o "\n **HiAnime Results:**\n"),
                              IF Truthy(hianime_results)
                              THEN format_anime_list(hianime_results)
                              ELSE Text("")),
                          Text("\n\n **MyAnimeList Results:**\n")),
                      IF Truthy(mal_results)
                      THEN format_mal_anime_list(mal_results)
                      ELSE Text("")))

combined_search_result(a, data) ==
    AfterGate(data,
        "Unable to perform combined search for '" \o Str(a.query)
        \o "'. Please try again later.",
        LET result_data == Get(data, "data", JObj(<<>>))
        IN  IF ~IsDict(result_data) THEN Raise("AttributeError")
            ELSE
              LET hianime_results == Get(result_data, "hianime", JList(<<>>))
                  mal_results == Get(result_data, "mal", JList(<<>>))
              IN  Cat(Cat(Cat(Text(" **Combined Search Results for '" \o Str(a.query)
                                   \o "'**\n" \o Rule \o "\n **HiAnime Results:**\n"),
                              IF Truthy(hianime_results)
                              THEN format_anime_list(hianime_results)
                              ELSE Text("   No results from HiAnime.\n")),
                          Text("\n\n **MyAnimeList Results:**\n")),
                      IF Truthy(mal_results)
                      THEN format_mal_anime_list(mal_results)
                      ELSE Text("   No results from MAL.\n")))

(***************************************************************************)
(* MyAnimeList user tools: each POSTs by itself, inside `except Exception`  *)
(***************************************************************************)
\* The exchange raised inside the tool's try block.
PostRaised(o) == o.kind \in {"timeout", "status", "transport", "notjson"}

\* After the try block with `if not data` only.
AfterPost_without_success_check(o, prefix, rendered) ==
    IF PostRaised(o) THEN Text(prefix \o " Error: " \o o.msg)
    ELSE IF ~Truthy(o.body) THEN Text(prefix \o " Please check your credentials and try again.")
    ELSE IF ~IsDict(o.body) THEN Raise("AttributeError")
    ELSE rendered

\* After the try block: `if not data or not data.get("success")`.
AfterPost(o, prefix, rendered) ==
    IF PostRaised(o) THEN Text(prefix \o " Error: " \o o.msg)
    ELSE AfterGate(o.body,
                   prefix \o " Please check your credentials and try again.",
                   rendered)

\* logger.error(f"{what}: {str(e)}") of the except branch.
post_log(o, what) == IF PostRaised(o) THEN <<what \o ": " \o o.msg>> ELSE <<>>

\* payload = {...}; if client_secret: payload["client_secret"] = client_secret
with_secret(payload, client_secret) ==
    IF Supplied(client_secret)
    THEN [k \in DOMAIN payload \cup {"client_secret"} |->
            IF k = "client_secret" THEN JStr(client_secret[1]) ELSE payload[k]]
    ELSE payload

mal_get_auth_url_payload(a) ==
    with_secret([client_id |-> JStr(a.client_id), redirect_uri |-> JStr(a.redirect_uri)],
                a.client_secret)

mal_get_auth_url_result(a, o) ==
    AfterPost(o, "Unable to get authorization URL.",
        LET auth_data == Get(o.body, "data", JObj(<<>>))
        IN  IF ~IsDict(auth_data) THEN Raise("AttributeError")
            ELSE Text(
                "\n **MAL OAuth2 Authorization**\n"
                \o "\n **Authorization URL:**\n"
                \o PyStr(Get(auth_data, "auth_url", JStr(<<>>))) \o "\n"
                \o "\n **IMPORTANT - Save these values:**"
                \o "\n   - Code Verifier: "
                \o PyStr(Get(auth_data, "code_verifier", JStr(<<>>)))
                \o "\n   - State: " \o PyStr(Get(auth_data, "state", JStr(<<>>))) \o "\n"
                \o "\n **Next Steps:**"
                \o "\n1. Open the authorization URL in your browser"
                \o "\n2. Login to MyAnimeList and authorize the app"
                \o "\n3. After redirect, copy the 'code' parameter from the URL"
                \o "\n4. Use 'mal_exchange_token' with the code and code_verifier to get your access token"
                \o "\n"))

mal_exchange_token_payload(a) ==
    with_secret([client_id |-> JStr(a.client_id), code |-> JStr(a.code),
                 code_verifier |-> JStr(a.code_verifier),
                 redirect_uri |-> JStr(a.redirect_uri)],
                a.client_secret)

mal_exchange_token_result(a, o) ==
    AfterPost(o, "Unable to exchange token.",
        LET token_data == Get(o.body, "data", JObj(<<>>))
        IN  IF ~IsDict(token_data) THEN Raise("AttributeError")
            ELSE Text(
                "\n **MAL Token Exchange Successful!**\n"
                \o "\n **Access Token:**\n"
                \o PyStr(Get(token_data, "access_token", JStr(<<>>))) \o "\n"
                \o "\n **Refresh Token:**\n"
                \o PyStr(Get(token_data, "refresh_token", JStr(<<>>))) \o "\n"
                \o "\n **Expires In:** " \o PyStr(Get(token_data, "expires_in", JStr(<<>>)))
                \o " seconds"
                \o "\n **Token Type:** "
                \o PyStr(Get(token_data, "token_type", JStr(<<"Bearer">>))) \o "\n"
                \o "\n **IMPORTANT:**"
                \o "\n- Save these tokens securely!"
                \o "\n- Use the access_token with 'mal_user_animelist' and 'mal_user_profile'"
                \o "\n- Use the refresh_token to get a new access_token when it expires"
                \o "\n"))

\* `if status and status.lower() not in MAL_LIST_STATUSES`: the text returned,
\* "" when the check passes.
mal_user_animelist_error(a) ==
    IF Supplied(a.status) /\ ~InList(Str(lower(a.status[1])), MAL_LIST_STATUSES)
    THEN "Invalid status '" \o Str(a.status[1]) \o "'. Available statuses: "
         \o join_comma(MAL_LIST_STATUSES)
    ELSE ""

mal_user_animelist_payload(a) ==
    LET payload == [client_id |-> JStr(a.client_id),
                    access_token |-> JStr(a.access_token),
                    limit |-> JInt(a.limit)]
    IN  IF Supplied(a.status)
        THEN [k \in DOMAIN payload \cup {"status"} |->
                IF k = "status" THEN JStr(lower(a.status[1])) ELSE payload[k]]
        ELSE payload

mal_user_animelist_result(a, o) ==
    AfterPost(o, "Unable to fetch anime list.",
        LET anime_list == Get(o.body, "data", JList(<<>>))
        IN  IF ~Truthy(anime_list)
            THEN Text("No anime found in your list"
                      \o (IF Supplied(a.status)
                          THEN " with status '" \o Str(a.status[1]) \o "'" ELSE "")
                      \o ".")
            ELSE IF ~HasLen(anime_list) THEN Raise("TypeError")
            ELSE Cat(Text(" **Your MAL Anime List** ("
                          \o (IF Supplied(a.status)
                              THEN Str(title(replace(a.status[1], "_", " "))) ELSE "All")
                          \o ", " \o IntStr(PyLen(anime_list)) \o " entries)\n" \o Rule),
                     format_mal_user_animelist(anime_list)))

\* f"{j:.1f}" of a number without a fraction.
format_one_decimal(j) ==
    CASE j.t = "int" -> Text(IntStr(j.v) \o ".0")
      [] j.t = "bool" -> Text(IF j.v THEN "1.0" ELSE "0.0")
      [] j.t = "str" -> Raise("ValueError")
      [] OTHER -> Raise("TypeError")

mal_user_profile_payload(a) ==
    [client_id |-> JStr(a.client_id), access_token |-> JStr(a.access_token)]

mal_user_profile_result(a, o) ==
    AfterPost(o, "Unable to fetch profile.",
        LET profile == Get(o.body, "data", JObj(<<>>))
        IN  IF ~IsDict(profile) THEN Raise("AttributeError")
            ELSE
              LET anime_stats == Get(profile, "anime_statistics", JObj(<<>>))
                  username == PyStr(Get(profile, "name", JStr(<<"Unknown">>)))
              IN  IF ~IsDict(anime_stats) THEN Raise("AttributeError")
                  ELSE
                    LET stat(key) == PyStr(Get(anime_stats, key, JInt(0)))
                        episodes_watched ==
                            format_thousands(Get(anime_stats, "num_episodes", JInt(0)))
                        days_watched ==
                            format_one_decimal(Get(anime_stats, "num_days_watched", JInt(0)))
                    IN  IF episodes_watched.kind = "raise" THEN episodes_watched
                        ELSE IF days_watched.kind = "raise" THEN days_watched
                        ELSE Text(
                            "\n **MAL User Profile**\n"
                            \o "\n **Basic Information:**"
                            \o "\n   - Username: " \o username
                            \o "\n   - User ID: " \o PyStr(Get(profile, "id", JStr(NA)))
                            \o "\n   - Location: " \o PyStr(Get(profile, "location", JStr(NA)))
                            \o "\n   - Birthday: " \o PyStr(Get(profile, "birthday", JStr(NA)))
                            \o "\n   - Joined: " \o PyStr(Get(profile, "joined_at", JStr(NA)))
                            \o "\n\n **Anime Statistics:**"
                            \o "\n   - Total Entries: " \o stat("num_items")
                            \o "\n   - Episodes Watched: " \o episodes_watched.text
                            \o "\n   - Days Watched: " \o days_watched.text
                            \o "\n   - Mean Score: " \o stat("mean_score") \o "/10"
                            \o "\n\n **Status Breakdown:**"
                            \o "\n   -  Watching: " \o stat("num_items_watching")
                            \o "\n   -  Completed: " \o stat("num_items_completed")
                            \o "\n   -  On Hold: " \o stat("num_items_on_hold")
                            \o "\n   -  Dropped: " \o stat("num_items_dropped")
                            \o "\n   -  Plan to Watch: " \o stat("num_items_plan_to_watch")
                            \o "\n\n **Profile URL:** https://myanimelist.net/profile/"
                            \o username \o "\n"))

(***************************************************************************)
(* Strings the inputs are built from                                       *)
(***************************************************************************)
S_naruto == <<"n", "a", "r", "u", "t", "o">>

S_one_piece_100 == <<"o", "n", "e", "-", "p", "i", "e", "c", "e", "-", "1", "0", "0">>

S_bogus == <<"b", "o", "g", "u", "s">>

S_action == <<"a", "c", "t", "i", "o", "n">>

S_sci_fi == <<"s", "c", "i", "-", "f", "i">>

S_tv == <<"t", "v">>

S_movie == <<"m", "o", "v", "i", "e">>

S_airing == <<"a", "i", "r", "i", "n", "g">>

S_pg_13 == <<"p", "g", "-", "1", "3">>

S_fall == <<"f", "a", "l", "l">>

S_dub == <<"d", "u", "b">>

S_score == <<"s", "c", "o", "r", "e">>

S_all == <<"a", "l", "l">>

S_bypopularity == <<"b", "y", "p", "o", "p", "u", "l", "a", "r", "i", "t", "y">>

S_on_hold == <<"o", "n", "_", "h", "o", "l", "d">>

S_other == <<"o", "t", "h", "e", "r">>

S_producer == <<"s", "t", "u", "d", "i", "o", "-", "p", "i", "e", "r", "r", "o", "t">>

S_genres_ok == <<"a", "c", "t", "i", "o", "n", ",", "c", "o", "m", "e", "d", "y">>

S_genres_bad == <<"a", "c", "t", "i", "o", "n", ",", "b", "o", "g", "u", "s">>

S_url ==
    <<"h", "t", "t", "p", "s", ":", "/", "/", "s", "i", "t", "e", "/", "o", "n", "e",
      "-", "p", "i", "e", "c", "e", "-", "1", "0", "0", "?", "r", "e", "f", "=", "s",
      "e", "a", "r", "c", "h">>

S_id == <<"o", "p", "-", "i", "d", "-", "7">>

S_slug == <<"o", "n", "e", "-", "p", "i", "e", "c", "e">>

S_title == <<"O", "n", "e", " ", "P", "i", "e", "c", "e">>

S_synopsis == <<"P", "i", "r", "a", "t", "e", "s", ".">>

S_comedy == <<"C", "o", "m", "e", "d", "y">>

S_toei == <<"T", "o", "e", "i">>

S_client_id == <<"c", "i", "d">>

S_client_secret == <<"s", "3", "c", "r", "e", "t">>

S_redirect_uri == <<"h", "t", "t", "p", ":", "/", "/", "c", "b">>

S_code == <<"a", "u", "t", "h", "c", "o", "d", "e">>

S_code_verifier == <<"v", "e", "r", "i", "f", "i", "e", "r">>

S_access_token == <<"t", "o", "k", "-", "a">>

S_refresh_token == <<"t", "o", "k", "-", "r">>

S_auth_url ==
    <<"h", "t", "t", "p", "s", ":", "/", "/", "m", "a", "l", "/", "a", "u", "t", "h",
      "o", "r", "i", "z", "e">>

S_state == <<"s", "t", "8">>

S_user == <<"l", "u", "f", "f", "y">>

S_watching == <<"w", "a", "t", "c", "h", "i", "n", "g">>

(***************************************************************************)
(* Upstream bodies                                                         *)
(***************************************************************************)
\* The dict with the given <<key, value>> pairs.
Obj(pairs) ==
    JObj([k \in {pairs[i][1] : i \in DOMAIN pairs} |->
            pairs[CHOOSE i \in DOMAIN pairs : pairs[i][1] = k][2]])

\* A field that may be absent: o is <<>> or <<value>>.
Field(key, o) == IF o = <<>> THEN <<>> ELSE << <<key, o[1]>> >>

Ok(data) == Obj(<< <<"success", JBool(TRUE)>>, <<"data", data>> >>)

\* Summary items: every combination of slug (absent, empty, given), url
\* (absent, empty, given) and id (absent, given).
SummaryItems ==
    {Obj(<< <<"title", JStr(S_title)>> >> \o Field("slug", slug) \o Field("url", url)
         \o Field("id", id)) :
        slug \in {<<>>, <<JStr(<<>>)>>, <<JStr(S_slug)>>},
        url \in {<<>>, <<JStr(<<>>)>>, <<JStr(S_url)>>},
        id \in {<<>>, <<JStr(S_id)>>}}

FullItem ==
    Obj(<< <<"title", JStr(S_title)>>, <<"slug", JStr(S_slug)>>, <<"id", JStr(S_id)>>,
           <<"url", JStr(S_url)>>, <<"type", JStr(S_tv)>>,
           <<"episodes", Obj(<< <<"sub", JInt(12)>>, <<"dub", JInt(10)>> >>)>>,
           <<"duration", JStr(<<"24m">>)>> >>)

\* An item whose 'episodes' is a number, as detail payloads carry it.
CountItem == Obj(<< <<"title", JStr(S_title)>>, <<"episodes", JInt(12)>> >>)

ListBodies ==
    {Ok(JList(<<item>>)) : item \in SummaryItems}
    \cup {Ok(JList(<<>>)),
          Ok(JList(<<FullItem, FullItem>>)),
          Ok(JList(<<CountItem>>)),
          Ok(JList(<<JInt(5)>>)),
          Obj(<< <<"success", JBool(TRUE)>>, <<"data", JList(<<FullItem>>)>>,
                 <<"count", JInt(7)>>, <<"page", JInt(2)>> >>)}

\* Detail payloads: every subset of synopsis, genres and studios present.
DetailInfos ==
    {Obj(<< <<"title", JStr(S_title)>>, <<"japaneseTitle", JStr(S_slug)>>,
            <<"totalEpisodes", JInt(12)>> >>
         \o Field("synopsis", synopsis) \o Field("genres", genres)
         \o Field("studios", studios)) :
        synopsis \in {<<>>, <<JStr(S_synopsis)>>},
        genres \in {<<>>, <<JList(<<JStr(S_comedy), JStr(S_action)>>)>>},
        studios \in {<<>>, <<JList(<<JStr(S_toei)>>)>>}}

DetailBodies ==
    {Ok(Obj(<< <<"anime", info>> >>)) : info \in DetailInfos}
    \cup {Ok(info) : info \in DetailInfos}
    \cup {Obj(<< <<"success", JBool(TRUE)>>, <<"title", JStr(S_title)>> >>),
          Ok(Obj(<< <<"title", JStr(S_title)>>, <<"description", JStr(S_synopsis)>> >>)),
          Ok(Obj(<< <<"title", JStr(S_title)>>,
                    <<"producers", JList(<<JStr(S_toei), JStr(S_comedy)>>)>> >>)),
          Ok(Obj(<< <<"title", JStr(S_title)>>, <<"producers", JInt(3)>> >>)),
          Ok(Obj(<< <<"title", JStr(S_title)>>, <<"genres", JInt(3)>> >>))}

\* MAL detail payloads: num_scoring_users and num_list_users present or not.
MalDetailBodies ==
    {Ok(Obj(<< <<"id", JInt(21)>>, <<"title", JStr(S_title)>>,
               <<"genres", JList(<<Obj(<< <<"name", JStr(S_comedy)>> >>)>>)>> >>
            \o Field("num_scoring_users", scoring) \o Field("num_list_users", listing))) :
        scoring \in {<<>>, <<JInt(1234567)>>},
        listing \in {<<>>, <<JInt(890)>>}}
    \cup {Ok(Obj(<< <<"id", JInt(21)>>, <<"num_scoring_users", JNull>>,
                    <<"num_list_users", JInt(5)>> >>))}

MalItem == Obj(<< <<"node", Obj(<< <<"id", JInt(21)>>, <<"title", JStr(S_title)>> >>)>> >>)

RankedItem ==
    Obj(<< <<"node", Obj(<< <<"id", JInt(21)>>, <<"title", JStr(S_title)>> >>)>>,
           <<"ranking", Obj(<< <<"rank", JInt(1)>> >>)>> >>)

Episode(n) ==
    Obj(<< <<"number", JInt(n)>>, <<"title", JStr(S_title)>>, <<"id", JStr(S_id)>>,
           <<"url", JStr(S_url)>> >>)

MalBodies ==
    {Ok(JList(<<MalItem>>)), Ok(JList(<<RankedItem, MalItem>>))}

\* n episodes, numbered from n down to 1.
Countdown(n) ==
    JList([i \in 1..n |->
            Obj(<< <<"number", JInt(n + 1 - i)>>, <<"title", JStr(S_title)>> >>)])

EpisodeBodies ==
    {Ok(Countdown(n)) : n \in {20, 21, 25}}
    \cup
    {Ok(JList(<<Episode(1), Episode(2)>>)),
     Ok(JList(<<Obj(<< <<"number", JInt(1)>>, <<"title", JStr(S_title)>> >>),
                Obj(<< <<"number", JInt(1)>>, <<"title", JStr(S_naruto)>> >>),
                Obj(<< <<"number", JInt(3)>>, <<"title", JStr(S_slug)>> >>)>>)),
     Ok(JList(<<Obj(<< <<"episodeNum", JInt(1)>>, <<"name", JStr(S_title)>>,
                       <<"isFiller", JBool(TRUE)>> >>)>>))}

CombinedBodies ==
    {Ok(Obj(<< <<"hianime", JList(<<FullItem>>)>>, <<"mal", JList(<<MalItem>>)>> >>)),
     Ok(Obj(<< <<"hianime", JList(<<>>)>>, <<"mal", JList(<<MalItem>>)>> >>)),
     Ok(Obj(<< <<"hianime", JList(<<FullItem>>)>> >>)),
     Ok(Obj(<< <<"hianime", JList(<<FullItem, FullItem>>)>>, <<"mal", JList(<<>>)>> >>)),
     Ok(Obj(<< <<"mal", JList(<<RankedItem, MalItem>>)>> >>)),
     Ok(Obj(<< <<"hianime", JNull>>, <<"mal", JList(<<MalItem>>)>> >>)),
     Ok(Obj(<< <<"hianime", JList(<<>>)>>, <<"mal", JList(<<>>)>> >>))}

UserBodies ==
    {Obj(<< <<"success", JBool(FALSE)>>,
            <<"data", Obj(<< <<"access_token", JStr(S_access_token)>>,
                             <<"refresh_token", JStr(S_refresh_token)>> >>)>> >>),
     Ok(Obj(<< <<"auth_url", JStr(S_auth_url)>>, <<"code_verifier", JStr(S_code_verifier)>>,
               <<"state", JStr(S_state)>> >>)),
     Ok(Obj(<< <<"access_token", JStr(S_access_token)>>,
               <<"refresh_token", JStr(S_refresh_token)>>,
               <<"expires_in", JInt(3600)>> >>)),
     Ok(JList(<<Obj(<< <<"node", Obj(<< <<"id", JInt(21)>>, <<"title", JStr(S_title)>> >>)>>,
                       <<"list_status",
                         Obj(<< <<"status", JStr(S_on_hold)>>, <<"score", JInt(8)>>,
                                <<"num_episodes_watched", JInt(3)>> >>)>> >>)>>)),
     Ok(Obj(<< <<"name", JStr(S_user)>>, <<"id", JInt(9)>>,
               <<"anime_statistics",
                 Obj(<< <<"num_items", JInt(40)>>, <<"num_episodes", JInt(12345)>>,
                        <<"num_days_watched", JInt(17)>> >>)>> >>))}

\* Bodies whose top level is not the usual success object.
OddBodies ==
    {JNull, JList(<<>>), JList(<<JInt(1)>>), JObj(<<>>),
     Obj(<< <<"success", JBool(FALSE)>> >>),
     Obj(<< <<"success", JBool(FALSE)>>, <<"data", JList(<<FullItem>>)>> >>),
     Obj(<< <<"data", JList(<<FullItem>>)>> >>),
     Obj(<< <<"success", JBool(TRUE)>> >>),
     Ok(JNull), Ok(JInt(5)), Ok(JStr(S_bogus))}

Bodies ==
    ListBodies \cup DetailBodies \cup MalDetailBodies \cup MalBodies
    \cup EpisodeBodies \cup CombinedBodies \cup UserBodies \cup OddBodies

\* str(e) of the exceptions an exchange can raise.
TimeoutMessages == {"", "timed out"}

StatusCodes == {401, 404, 500}

TransportMessages == {"All connection attempts failed", "[Errno -2] Name or service not known"}

JsonErrorMessage == "Expecting value: line 1 column 1 (char 0)"

status_message(code) ==
    (IF code < 500 THEN "Client error '" ELSE "Server error '") \o IntStr(code) \o "'"

(***************************************************************************)
(* Tool arguments                                                          *)
(***************************************************************************)
\* Pages run from -1 to MaxPage; at most MaxSupplied of filter_anime's
\* optional arguments are given in one call.
MaxPage == 1

MaxSupplied == 2

Pages == {-1} \cup 0..MaxPage

Limits == {-5, 0, 1, 10, 20, 21, 100, 101, 500}

Padded(cs) == <<" ">> \o cs \o <<" ">>

\* A vocabulary member as callers may write it.
Spellings(cs) == {cs, upper(cs), Padded(cs)}

\* Values for a required categorical argument.
Categorical(members) ==
    UNION {Spellings(m) : m \in members} \cup {S_bogus, <<>>}

\* Values for an Optional categorical argument: None, or a str.
OptionalOf(values) == {<<>>} \cup {<<x>> : x \in values}

GenreInputs == Categorical({S_action, S_sci_fi})

TypeInputs == Categorical({S_tv})

RankingInputs == Categorical({S_all, S_bypopularity})

SeasonInputs == Categorical({S_fall})

LetterInputs ==
    {<<"a">>, <<"Z">>, <<" ", "b">>, <<"1">>, <<"a", "b">>, <<>>, S_other,
     upper(S_other), Padded(S_other), <<"O", "t", "h", "e", "r">>, <<" ">>,
     <<SharpS>>}

FilterFields ==
    {"anime_type", "status", "rated", "score", "season", "language", "genres", "sort"}

\* The values of one optional argument when it is given.
FilterValues ==
    [anime_type |-> Categorical({S_tv}),
     status |-> Categorical({S_airing}),
     rated |-> Categorical({S_pg_13}),
     score |-> {-3, 0, 1, 10, 11},
     season |-> Categorical({S_fall}),
     language |-> Categorical({S_dub}),
     genres |-> {S_genres_ok, upper(S_genres_ok), S_genres_bad, <<>>},
     sort |-> Categorical({S_score})]

\* The argument records in which exactly the fields of given are not None.
FilterArgsWith(given) ==
    [anime_type : IF "anime_type" \in given
                  THEN {<<x>> : x \in FilterValues.anime_type} ELSE {<<>>},
     status : IF "status" \in given THEN {<<x>> : x \in FilterValues.status} ELSE {<<>>},
     rated : IF "rated" \in given THEN {<<x>> : x \in FilterValues.rated} ELSE {<<>>},
     score : IF "score" \in given THEN {<<x>> : x \in FilterValues.score} ELSE {<<>>},
     season : IF "season" \in given THEN {<<x>> : x \in FilterValues.season} ELSE {<<>>},
     language : IF "language" \in given
                THEN {<<x>> : x \in FilterValues.language} ELSE {<<>>},
     genres : IF "genres" \in given THEN {<<x>> : x \in FilterValues.genres} ELSE {<<>>},
     sort : IF "sort" \in given THEN {<<x>> : x \in FilterValues.sort} ELSE {<<>>},
     page : Pages]

FilterArgs ==
    UNION {FilterArgsWith(given) :
            given \in {g \in SUBSET FilterFields : Cardinality(g) <= MaxSupplied}}

(***************************************************************************)
(* Tool calls: each runs to its upstream request or returns early          *)
(***************************************************************************)
search_anime ==
    /\ pc = "idle"
    /\ \E keyword \in {S_naruto}, page \in Pages :
        Start("search_anime", [keyword |-> keyword, page |-> page],
              GetRequest("/api/search", [keyword |-> JStr(keyword), page |-> JInt(page)]),
              <<"Searching anime with keyword: " \o Str(keyword) \o ", page: "
                \o IntStr(page)>>)

browse(t) ==
    /\ pc = "idle"
    /\ \E page \in Pages :
        Start(t, [page |-> page],
              GetRequest(BrowseTools[t].path, [page |-> JInt(page)]),
              <<"Fetching " \o BrowseTools[t].noun \o " anime, page: " \o IntStr(page)>>)

get_popular_anime == browse("get_popular_anime")

get_top_airing_anime == browse("get_top_airing_anime")

get_recently_updated_anime == browse("get_recently_updated_anime")

get_completed_anime == browse("get_completed_anime")

get_subbed_anime == browse("get_subbed_anime")

get_dubbed_anime == browse("get_dubbed_anime")

\* genre.lower().strip()
normalize(cs) == strip(lower(cs))

get_anime_by_genre ==
    /\ pc = "idle"
    /\ \E genre \in GenreInputs, page \in Pages :
        LET a == [genre |-> genre, page |-> page]
            genre_lower == Str(normalize(genre))
        IN  IF ~InList(genre_lower, AVAILABLE_GENRES)
            THEN ReturnEarly("get_anime_by_genre", a, <<>>,
                    "Invalid genre '" \o Str(genre) \o "'. Available genres: "
                    \o join_comma(AVAILABLE_GENRES))
            ELSE Start("get_anime_by_genre", a,
                    GetRequest("/api/genre/" \o genre_lower, [page |-> JInt(page)]),
                    <<"Fetching anime by genre: " \o genre_lower \o ", page: "
                      \o IntStr(page)>>)

get_anime_by_type ==
    /\ pc = "idle"
    /\ \E anime_type \in TypeInputs, page \in Pages :
        LET a == [anime_type |-> anime_type, page |-> page]
            type_lower == Str(normalize(anime_type))
        IN  IF ~InList(type_lower, AVAILABLE_TYPES)
            THEN ReturnEarly("get_anime_by_type", a, <<>>,
                    "Invalid type '" \o Str(anime_type) \o "'. Available types: "
                    \o join_comma(AVAILABLE_TYPES))
            ELSE Start("get_anime_by_type", a,
                    GetRequest("/api/type/" \o type_lower, [page |-> JInt(page)]),
                    <<"Fetching anime by type: " \o type_lower \o ", page: "
                      \o IntStr(page)>>)

get_anime_details ==
    /\ pc = "idle"
    /\ \E slug \in {S_one_piece_100} :
        Start("get_anime_details", [slug |-> slug],
              GetRequest("/api/anime/" \o Str(slug), <<>>),
              <<"Fetching anime details for slug: " \o Str(slug)>>)

get_anime_episodes ==
    /\ pc = "idle"
    /\ \E slug \in {S_one_piece_100} :
        Start("get_anime_episodes", [slug |-> slug],
              GetRequest("/api/episodes/" \o Str(slug), <<>>),
              <<"Fetching episodes for anime: " \o Str(slug)>>)

get_episode_info ==
    /\ pc = "idle"
    /\ \E slug \in {S_one_piece_100}, episode_number \in {0, 1, 2, 3} :
        Start("get_episode_info", [slug |-> slug, episode_number |-> episode_number],
              GetRequest("/api/episodes/" \o Str(slug), <<>>),
              <<"Getting info for " \o Str(slug) \o " episode " \o IntStr(episode_number)>>)

\* The path segment get_anime_az_list sends for an accepted letter.
letter_param(letter) ==
    IF strip(upper(letter)) = upper(S_other) THEN lower(letter) ELSE strip(upper(letter))

\* The letter check with the isalpha() test left out.
letter_invalid_by_length(letter_upper) ==
    letter_upper # upper(S_other) /\ Len(letter_upper) # 1

\* The condition under which get_anime_az_list turns its letter down.
letter_invalid(letter_upper) ==
    letter_upper # upper(S_other)
    /\ (Len(letter_upper) # 1 \/ ~is_letter(letter_upper[1]))

get_anime_az_list ==
    /\ pc = "idle"
    /\ \E letter \in LetterInputs, page \in Pages :
        LET a == [letter |-> letter, page |-> page]
            letter_upper == strip(upper(letter))
        IN  IF letter_invalid(letter_upper)
            THEN ReturnEarly("get_anime_az_list", a, <<>>,
                    "Invalid letter. Please provide a single letter A-Z or 'other' for non-alphabetic titles.")
            ELSE Start("get_anime_az_list", a,
                    GetRequest("/api/az/" \o Str(letter_param(letter)), [page |-> JInt(page)]),
                    <<"Fetching A-Z list for letter: " \o Str(letter_param(letter))
                      \o ", page: " \o IntStr(page)>>)

get_anime_by_producer ==
    /\ pc = "idle"
    /\ \E producer_slug \in {S_producer}, page \in Pages :
        Start("get_anime_by_producer", [producer_slug |-> producer_slug, page |-> page],
              GetRequest("/api/producer/" \o Str(producer_slug), [page |-> JInt(page)]),
              <<"Fetching anime by producer: " \o Str(producer_slug) \o ", page: "
                \o IntStr(page)>>)

\* str(params) of the dict filter_anime logs: the keys in insertion order.
filter_anime_params_repr(a) ==
    "{" \o join_comma(
        <<"'page': " \o IntStr(a.page)>>
        \o (IF Supplied(a.anime_type)
            THEN <<"'type': '" \o Str(lower(a.anime_type[1])) \o "'">> ELSE <<>>)
        \o (IF Supplied(a.status)
            THEN <<"'status': '" \o Str(lower(a.status[1])) \o "'">> ELSE <<>>)
        \o (IF Supplied(a.rated)
            THEN <<"'rated': '" \o Str(lower(a.rated[1])) \o "'">> ELSE <<>>)
        \o (IF a.score # <<>> THEN <<"'score': " \o IntStr(a.score[1])>> ELSE <<>>)
        \o (IF Supplied(a.season)
            THEN <<"'season': '" \o Str(lower(a.season[1])) \o "'">> ELSE <<>>)
        \o (IF Supplied(a.language)
            THEN <<"'language': '" \o Str(lower(a.language[1])) \o "'">> ELSE <<>>)
        \o (IF Supplied(a.genres)
            THEN <<"'genres': '" \o Str(lower(a.genres[1])) \o "'">> ELSE <<>>)
        \o (IF Supplied(a.sort)
            THEN <<"'sort': '" \o Str(lower(a.sort[1])) \o "'">> ELSE <<>>))
    \o "}"

filter_anime ==
    /\ pc = "idle"
    /\ \E a \in FilterArgs :
        IF filter_anime_error(a) # ""
        THEN ReturnEarly("filter_anime", a, <<>>, filter_anime_error(a))
        ELSE Start("filter_anime", a,
                GetRequest("/api/filter", filter_anime_params(a)),
                <<"Filtering anime with params: " \o filter_anime_params_repr(a)>>)

check_api_health ==
    Start("check_api_health", <<>>, GetRequest("/", <<>>), <<"Checking API health">>)

get_available_filters ==
    ReturnEarly("get_available_filters", <<>>, <<>>, get_available_filters_text)

mal_search ==
    /\ pc = "idle"
    /\ \E query \in {S_naruto}, limit \in Limits :
        Start("mal_search", [query |-> query, limit |-> limit],
              GetRequest("/api/mal/search",
                         [query |-> JStr(query),
                          limit |-> JInt(clamp_limit(limit, MAL_LIMIT_MAX))]),
              <<"MAL search for: " \o Str(query) \o ", limit: " \o IntStr(limit)>>)

mal_anime_details ==
    /\ pc = "idle"
    /\ \E mal_id \in {21} :
        Start("mal_anime_details", [mal_id |-> mal_id],
              GetRequest("/api/mal/anime/" \o IntStr(mal_id), <<>>),
              <<"Fetching MAL anime details for ID: " \o IntStr(mal_id)>>)

mal_ranking ==
    /\ pc = "idle"
    /\ \E ranking_type \in RankingInputs, limit \in Limits :
        LET a == [ranking_type |-> ranking_type, limit |-> limit]
            ranking_lower == Str(normalize(ranking_type))
        IN  IF ~InList(ranking_lower, MAL_RANKING_TYPES)
            THEN ReturnEarly("mal_ranking", a, <<>>,
                    "Invalid ranking type '" \o Str(ranking_type) \o "'. Available types: "
                    \o join_comma(MAL_RANKING_TYPES))
            ELSE Start("mal_ranking", a,
                    GetRequest("/api/mal/ranking",
                               [type |-> JStr(normalize(ranking_type)),
                                limit |-> JInt(clamp_limit(limit, MAL_LIMIT_MAX))]),
                    <<"Fetching MAL rankings: type=" \o ranking_lower \o ", limit="
                      \o IntStr(clamp_limit(limit, MAL_LIMIT_MAX))>>)

mal_seasonal ==
    /\ pc = "idle"
    /\ \E year \in {2024}, season \in SeasonInputs, limit \in Limits :
        LET a == [year |-> year, season |-> season, limit |-> limit]
            season_lower == Str(normalize(season))
        IN  IF ~InList(season_lower, AVAILABLE_SEASONS)
            THEN ReturnEarly("mal_seasonal", a, <<>>,
                    "Invalid season '" \o Str(season) \o "'. Available seasons: "
                    \o join_comma(AVAILABLE_SEASONS))
            ELSE Start("mal_seasonal", a,
                    GetRequest("/api/mal/seasonal",
                               [year |-> JInt(year), season |-> JStr(normalize(season)),
                                limit |-> JInt(clamp_limit(limit, MAL_LIMIT_MAX))]),
                    <<"Fetching MAL seasonal anime: " \o season_lower \o " " \o IntStr(year)
                      \o ", limit=" \o IntStr(clamp_limit(limit, MAL_LIMIT_MAX))>>)

combined_search ==
    /\ pc = "idle"
    /\ \E query \in {S_naruto}, limit \in Limits :
        Start("combined_search", [query |-> query, limit |-> limit],
              GetRequest("/api/combined/search",
                         [query |-> JStr(query),
                          limit |-> JInt(clamp_limit(limit, COMBINED_LIMIT_MAX))]),
              <<"Combined search for: " \o Str(query) \o ", limit: "
                \o IntStr(clamp_limit(limit, COMBINED_LIMIT_MAX))>>)

SecretInputs == OptionalOf({S_client_secret, <<>>})

mal_get_auth_url ==
    /\ pc = "idle"
    /\ \E client_secret \in SecretInputs :
        LET a == [client_id |-> S_client_id, redirect_uri |-> S_redirect_uri,
                  client_secret |-> client_secret]
        IN  Start("mal_get_auth_url", a,
                  PostRequest("/api/mal/user/auth", mal_get_auth_url_payload(a)),
                  <<"Getting MAL OAuth2 authorization URL">>)

\* mal_exchange_token with the authorization code written to its log line.
mal_exchange_token_logging_code ==
    /\ pc = "idle"
    /\ \E client_secret \in SecretInputs, code_verifier \in {S_code_verifier, S_bogus} :
        LET a == [client_id |-> S_client_id, code |-> S_code,
                  code_verifier |-> code_verifier, redirect_uri |-> S_redirect_uri,
                  client_secret |-> client_secret]
        IN  Start("mal_exchange_token", a,
                  PostRequest("/api/mal/user/token", mal_exchange_token_payload(a)),
                  <<"Exchanging MAL authorization code " \o Str(S_code) \o " for token">>)

mal_exchange_token ==
    /\ pc = "idle"
    /\ \E client_secret \in SecretInputs, code_verifier \in {S_code_verifier, S_bogus} :
        LET a == [client_id |-> S_client_id, code |-> S_code,
                  code_verifier |-> code_verifier, redirect_uri |-> S_redirect_uri,
                  client_secret |-> client_secret]
        IN  Start("mal_exchange_token", a,
                  PostRequest("/api/mal/user/token", mal_exchange_token_payload(a)),
                  <<"Exchanging MAL authorization code for token">>)

ListStatusInputs == OptionalOf(Categorical({S_on_hold}))

mal_user_animelist ==
    /\ pc = "idle"
    /\ \E status \in ListStatusInputs, limit \in {-5, 0, 1, 100, 5000} :
        LET a == [client_id |-> S_client_id, access_token |-> S_access_token,
                  status |-> status, limit |-> limit]
            line == "Fetching MAL user animelist, status="
                    \o (IF status = <<>> THEN "None" ELSE Str(status[1]))
                    \o ", limit=" \o IntStr(limit)
        IN  IF mal_user_animelist_error(a) # ""
            THEN ReturnEarly("mal_user_animelist", a, <<line>>, mal_user_animelist_error(a))
            ELSE Start("mal_user_animelist", a,
                    PostRequest("/api/mal/user/animelist", mal_user_animelist_payload(a)),
                    <<line>>)

mal_user_profile ==
    LET a == [client_id |-> S_client_id, access_token |-> S_access_token]
    IN  Start("mal_user_profile", a,
              PostRequest("/api/mal/user/profile", mal_user_profile_payload(a)),
              <<"Fetching MAL user profile">>)

(***************************************************************************)
(* The upstream answers the request in flight                              *)
(***************************************************************************)
Answer(o) ==
    /\ pc = "awaiting"
    /\ pc' = "answered"
    /\ outcome' = o
    /\ UNCHANGED <<tool, args, requests, result, log>>

upstream_timeout == \E msg \in TimeoutMessages : Answer(OutcomeOf("timeout", 0, msg, JNull))

upstream_status_error ==
    \E code \in StatusCodes : Answer(OutcomeOf("status", code, status_message(code), JNull))

upstream_transport_error ==
    \E msg \in TransportMessages : Answer(OutcomeOf("transport", 0, msg, JNull))

upstream_invalid_json == Answer(OutcomeOf("notjson", 200, JsonErrorMessage, JNull))

upstream_json == \E body \in Bodies : Answer(OutcomeOf("json", 200, "", body))

(***************************************************************************)
(* The tool function resumes with the answer                               *)
(***************************************************************************)
GetTools ==
    {"search_anime", "get_anime_by_genre", "get_anime_by_type", "get_anime_details",
     "get_anime_episodes", "get_episode_info", "get_anime_az_list",
     "get_anime_by_producer", "filter_anime", "check_api_health", "mal_search",
     "mal_anime_details", "mal_ranking", "mal_seasonal", "combined_search"}
    \cup DOMAIN BrowseTools

PostTools ==
    {"mal_get_auth_url", "mal_exchange_token", "mal_user_animelist", "mal_user_profile"}

\* What tool t returns with arguments a when make_api_request returned data.
get_tool_result(t, a, data) ==
    CASE t = "search_anime" -> search_anime_result(a, data)
      [] t \in DOMAIN BrowseTools -> browse_result(t, a, data)
      [] t = "get_anime_by_genre" -> get_anime_by_genre_result(a, data)
      [] t = "get_anime_by_type" -> get_anime_by_type_result(a, data)
      [] t = "get_anime_details" -> get_anime_details_result(a, data)
      [] t = "get_anime_episodes" -> get_anime_episodes_result(a, data)
      [] t = "get_episode_info" -> get_episode_info_result(a, data)
      [] t = "get_anime_az_list" -> get_anime_az_list_result(a, data)
      [] t = "get_anime_by_producer" -> get_anime_by_producer_result(a, data)
      [] t = "filter_anime" -> filter_anime_result(a, data)
      [] t = "check_api_health" -> check_api_health_result(data)
      [] t = "mal_search" -> mal_search_result(a, data)
      [] t = "mal_anime_details" -> mal_anime_details_result(a, data)
      [] t = "mal_ranking" -> mal_ranking_result(a, data)
      [] t = "mal_seasonal" -> mal_seasonal_result(a, data)
      [] t = "combined_search" -> combined_search_result(a, data)

\* What tool t returns with arguments a when its own POST ended in o.
post_tool_result(t, a, o) ==
    CASE t = "mal_get_auth_url" -> mal_get_auth_url_result(a, o)
      [] t = "mal_exchange_token" -> mal_exchange_token_result(a, o)
      [] t = "mal_user_animelist" -> mal_user_animelist_result(a, o)
      [] t = "mal_user_profile" -> mal_user_profile_result(a, o)

post_tool_log(t, o) ==
    CASE t = "mal_get_auth_url" -> post_log(o, "Failed to get auth URL")
      [] t = "mal_exchange_token" -> post_log(o, "Failed to exchange token")
      [] t = "mal_user_animelist" -> post_log(o, "Failed to fetch animelist")
      [] t = "mal_user_profile" -> post_log(o, "Failed to fetch profile")

get_tool_returns ==
    /\ tool \in GetTools
    /\ FinishGet(tool, get_tool_result(tool, args, make_api_request(outcome)))

post_tool_returns ==
    /\ tool \in PostTools
    /\ Finish(tool, post_tool_result(tool, args, outcome), post_tool_log(tool, outcome))

\* The server takes the next call.
next_call ==
    /\ pc = "returned"
    /\ pc' = "idle"
    /\ tool' = ""
    /\ args' = <<>>
    /\ requests' = <<>>
    /\ outcome' = NoOutcome
    /\ result' = NoResult
    /\ log' = <<>>

Init ==
    /\ pc = "idle"
    /\ tool = ""
    /\ args = <<>>
    /\ requests = <<>>
    /\ outcome = NoOutcome
    /\ result = NoResult
    /\ log = <<>>

Next ==
    \/ search_anime
    \/ get_popular_anime
    \/ get_top_airing_anime
    \/ get_recently_updated_anime
    \/ get_completed_anime
    \/ get_subbed_anime
    \/ get_dubbed_anime
    \/ get_anime_by_genre
    \/ get_anime_by_type
    \/ get_anime_details
    \/ get_anime_episodes
    \/ get_episode_info
    \/ get_anime_az_list
    \/ get_anime_by_producer
    \/ filter_anime
    \/ check_api_health
    \/ get_available_filters
    \/ mal_search
    \/ mal_anime_details
    \/ mal_ranking
    \/ mal_seasonal
    \/ combined_search
    \/ mal_get_auth_url
    \/ mal_exchange_token
    \/ mal_user_animelist
    \/ mal_user_profile
    \/ upstream_timeout
    \/ upstream_status_error
    \/ upstream_transport_error
    \/ upstream_invalid_json
    \/ upstream_json
    \/ get_tool_returns
    \/ post_tool_returns
    \/ next_call

Spec == Init /\ [][Next]_vars

\* The exchange ends: the upstream answers or the timeout of the request ends
\* the wait.
upstream_answers ==
    \/ upstream_timeout
    \/ upstream_status_error
    \/ upstream_transport_error
    \/ upstream_invalid_json
    \/ upstream_json

(***************************************************************************)
(* Several calls at a time.  The event loop runs the tool functions as      *)
(* coroutines that interleave at their awaits.  Under ConcurrentSpec every  *)
(* variable is a function of the call: what a variable holds for a call is   *)
(* a local of that call's coroutine (its arguments, its own AsyncClient and  *)
(* request, the response it awaited, its return value) or the lines it has   *)
(* handed to the logger.                                                     *)
(***************************************************************************)
NumCalls == 2

Calls == 1..NumCalls

\* The calls the clients make: an accepted and a refused letter, an episode
\* list, a token exchange.
ConcurrentCalls ==
    {[tool |-> "get_anime_az_list", args |-> [letter |-> letter, page |-> 1]] :
        letter \in {<<"a">>, <<"1">>}}
    \cup {[tool |-> "get_anime_episodes", args |-> [slug |-> S_one_piece_100]]}
    \cup {[tool |-> "mal_exchange_token",
           args |-> [client_id |-> S_client_id, code |-> S_code,
                     code_verifier |-> S_code_verifier, redirect_uri |-> S_redirect_uri,
                     client_secret |-> <<>>]]}

\* The answers the upstream gives them.
ConcurrentOutcomes ==
    {OutcomeOf("timeout", 0, "timed out", JNull),
     OutcomeOf("status", 500, status_message(500), JNull)}
    \cup {OutcomeOf("json", 200, "", body) :
            body \in {Ok(JList(<<FullItem>>)),
                      Ok(JList(<<Episode(1), Episode(2)>>)),
                      Ok(Obj(<< <<"access_token", JStr(S_access_token)>>,
                                <<"refresh_token", JStr(S_refresh_token)>> >>)),
                      JList(<<JInt(1)>>)}}

\* The text with which tool t turns the arguments a down before any request,
\* "" when it does not.
validation_error(t, a) ==
    IF t = "get_anime_az_list" /\ letter_invalid(strip(upper(a.letter)))
    THEN "Invalid letter. Please provide a single letter A-Z or 'other' for non-alphabetic titles."
    ELSE ""

\* The request tool t issues for the arguments a.
request_of(t, a) ==
    CASE t = "get_anime_az_list" ->
            GetRequest("/api/az/" \o Str(letter_param(a.letter)), [page |-> JInt(a.page)])
      [] t = "get_anime_episodes" -> GetRequest("/api/episodes/" \o Str(a.slug), <<>>)
      [] t = "mal_exchange_token" ->
            PostRequest("/api/mal/user/token", mal_exchange_token_payload(a))

\* The line tool t logs before its request.
request_line(t, a) ==
    CASE t = "get_anime_az_list" ->
            "Fetching A-Z list for letter: " \o Str(letter_param(a.letter))
            \o ", page: " \o IntStr(a.page)
      [] t = "get_anime_episodes" -> "Fetching episodes for anime: " \o Str(a.slug)
      [] t = "mal_exchange_token" -> "Exchanging MAL authorization code for token"

\* The response call c reads from one place all calls share.
response_of_shared(c) == outcome[1]

\* The response call c reads after its await: the local `data` or `response`
\* of its own coroutine.
response_of(c) == outcome[c]

\* The result with a count of the calls served so far written under it.
tool_result_with_call_count(t, a, o) ==
    IF t \in PostTools
    THEN post_tool_result(t, a, o)
    ELSE Cat(get_tool_result(t, a, make_api_request(o)),
             Text("\n" \o IntStr(Cardinality({c \in Calls : pc[c] = "returned"}))))

\* What tool t returns with arguments a once its exchange ended in o.
tool_result(t, a, o) ==
    IF t \in PostTools
    THEN post_tool_result(t, a, o)
    ELSE get_tool_result(t, a, make_api_request(o))

\* The lines tool t logs once its exchange ended in o.
tool_log(t, req, o) ==
    IF t \in PostTools THEN post_tool_log(t, o) ELSE make_api_request_log(req.path, o)

ConcurrentInit ==
    /\ pc = [c \in Calls |-> "idle"]
    /\ tool = [c \in Calls |-> ""]
    /\ args = [c \in Calls |-> <<>>]
    /\ requests = [c \in Calls |-> <<>>]
    /\ outcome = [c \in Calls |-> NoOutcome]
    /\ result = [c \in Calls |-> NoResult]
    /\ log = [c \in Calls |-> <<>>]

\* The server starts the tool function of call c: it runs up to its first
\* await, or returns before it.
call_received(c) ==
    /\ pc[c] = "idle"
    /\ \E k \in ConcurrentCalls :
        /\ tool' = [tool EXCEPT ![c] = k.tool]
        /\ args' = [args EXCEPT ![c] = k.args]
        /\ IF validation_error(k.tool, k.args) # ""
           THEN /\ pc' = [pc EXCEPT ![c] = "returned"]
                /\ result' = [result EXCEPT ![c] = Text(validation_error(k.tool, k.args))]
                /\ UNCHANGED <<requests, log>>
           ELSE /\ pc' = [pc EXCEPT ![c] = "awaiting"]
                /\ requests' = [requests EXCEPT ![c] = <<request_of(k.tool, k.args)>>]
                /\ log' = [log EXCEPT ![c] = <<request_line(k.tool, k.args)>>]
                /\ UNCHANGED result
    /\ UNCHANGED outcome

\* The exchange of call c ends.
call_answered(c) ==
    /\ pc[c] = "awaiting"
    /\ \E o \in ConcurrentOutcomes : outcome' = [outcome EXCEPT ![c] = o]
    /\ pc' = [pc EXCEPT ![c] = "answered"]
    /\ UNCHANGED <<tool, args, requests, result, log>>

\* The tool function of call c resumes and returns.
call_returns(c) ==
    /\ pc[c] = "answered"
    /\ pc' = [pc EXCEPT ![c] = "returned"]
    /\ result' = [result EXCEPT ![c] = tool_result(tool[c], args[c], response_of(c))]
    /\ log' = [log EXCEPT ![c] = @ \o tool_log(tool[c], requests[c][1], response_of(c))]
    /\ UNCHANGED <<tool, args, requests, outcome>>

ConcurrentNext ==
    \E c \in Calls :
        \/ call_received(c)
        \/ call_answered(c)
        \/ call_returns(c)

ConcurrentSpec == ConcurrentInit /\ [][ConcurrentNext]_vars

(***************************************************************************)
(* Properties                                                              *)
(***************************************************************************)
\* part occurs in text.
Contains(text, part) ==
    \E i \in 1..(Len(text) - Len(part) + 1) : SubSeq(text, i, i + Len(part) - 1) = part

StartsWith(text, part) == Len(text) >= Len(part) /\ SubSeq(text, 1, Len(part)) = part

\* The enumerated arguments of each tool that has one, with their vocabularies.
EnumeratedArguments ==
    [get_anime_by_genre |-> [genre |-> AVAILABLE_GENRES],
     get_anime_by_type |-> [anime_type |-> AVAILABLE_TYPES],
     filter_anime |-> [anime_type |-> AVAILABLE_TYPES, status |-> AVAILABLE_STATUSES,
                       rated |-> AVAILABLE_RATINGS, season |-> AVAILABLE_SEASONS,
                       language |-> AVAILABLE_LANGUAGES, sort |-> AVAILABLE_SORT_OPTIONS],
     mal_ranking |-> [ranking_type |-> MAL_RANKING_TYPES],
     mal_seasonal |-> [season |-> AVAILABLE_SEASONS],
     mal_user_animelist |-> [status |-> MAL_LIST_STATUSES]]

\* The tools whose enumerated arguments are Optional.
OptionalArgumentTools == {"filter_anime", "mal_user_animelist"}

\* The str values the running call was given for its enumerated argument f
\* (none when an Optional argument is None).
ValuesGiven(f) ==
    IF tool \in OptionalArgumentTools
    THEN (IF args[f] = <<>> THEN {} ELSE {args[f][1]})
    ELSE {args[f]}

\* cs is a member of vocab once lower-cased and trimmed.
IsMember(cs, vocab) == InList(Str(strip(lower(cs))), vocab)

\* The order in which filter_anime checks its arguments.
FilterCheckOrder ==
    <<"anime_type", "status", "rated", "score", "season", "language", "sort">>

\* filter_anime's check number k turns its argument down.
TurnedDown(k) ==
    LET f == FilterCheckOrder[k]
    IN  IF f = "score"
        THEN args.score # <<>> /\ args.score[1] \notin 1..10
        ELSE /\ args[f] # <<>>
             /\ args[f][1] # <<>>
             /\ ~InList(Str(lower(args[f][1])), EnumeratedArguments.filter_anime[f])

\* No argument that the running call checks before f is turned down.
CheckedFirst(f) ==
    tool = "filter_anime" =>
        \A k \in 1..Len(FilterCheckOrder) :
            TurnedDown(k) => \A j \in 1..Len(FilterCheckOrder) :
                                FilterCheckOrder[j] = f => j <= k

\* C1 as the spec states it: in every tool with an enumerated argument, a
\* value outside the vocabulary makes the call return a validation-error text
\* that lists that vocabulary, and the call never issues an upstream request.
C1_AnyInvalidValueListsVocabulary ==
    tool \in DOMAIN EnumeratedArguments =>
        \A f \in DOMAIN EnumeratedArguments[tool] : \A cs \in ValuesGiven(f) :
            ~IsMember(cs, EnumeratedArguments[tool][f]) =>
                /\ requests = <<>>
                /\ pc = "returned"
                /\ result.kind = "text"
                /\ StartsWith(result.text, "Invalid")
                /\ Contains(result.text, join_comma(EnumeratedArguments[tool][f]))

\* C1, amended: a value outside the vocabulary (after lower-casing and
\* trimming), other than an empty string given for an Optional argument, makes
\* the call return a validation-error text with no upstream request at any
\* point of the call; the text lists that vocabulary unless filter_anime turns
\* down an argument it checks earlier.
C1_InvalidValueFailsFast ==
    tool \in DOMAIN EnumeratedArguments =>
        \A f \in DOMAIN EnumeratedArguments[tool] : \A cs \in ValuesGiven(f) :
            /\ ~IsMember(cs, EnumeratedArguments[tool][f])
            /\ (tool \in OptionalArgumentTools => cs # <<>>)
            => /\ requests = <<>>
               /\ pc = "returned"
               /\ result.kind = "text"
               /\ \/ StartsWith(result.text, "Invalid")
                  \/ result.text = "Score must be between 1 and 10."
               /\ CheckedFirst(f) =>
                    /\ StartsWith(result.text, "Invalid")
                    /\ Contains(result.text, join_comma(EnumeratedArguments[tool][f]))

\* A call of filter_anime with an unknown sort and a valid type has returned
\* the sort vocabulary without any upstream request.
C1_Witness ==
    /\ pc = "returned"
    /\ tool = "filter_anime"
    /\ args.sort = <<S_bogus>>
    /\ args.anime_type = <<upper(S_tv)>>
    /\ requests = <<>>
    /\ Contains(result.text, join_comma(AVAILABLE_SORT_OPTIONS))

\* The upstream call of the running call failed: a timeout, a non-2xx status
\* or a transport error.
TransportFailure == outcome.kind \in {"timeout", "status", "transport"}

\* The upstream call ended in a 2xx JSON object whose success field is false.
SuccessFalse ==
    /\ outcome.kind = "json"
    /\ IsDict(outcome.body)
    /\ "success" \in DOMAIN outcome.body.v
    /\ outcome.body.v.success = JBool(FALSE)

\* C2: whatever the upstream call ended in, the tool function returns a text
\* and raises nothing.
C2_ToolsNeverRaise == pc = "returned" => result.kind = "text"

\* C3: a GET tool returns the text it returns on a timeout also on a non-2xx
\* status, on a transport error and on a 2xx body whose success is false.
C3_GetFailuresAlike ==
    pc = "returned" /\ tool \in GetTools /\ (TransportFailure \/ SuccessFalse) =>
        result = get_tool_result(tool, args,
                    make_api_request(OutcomeOf("timeout", 0, "", JNull)))

\* C4: an OAuth POST tool returns one and the same text on a timeout, a
\* non-2xx status, a transport error and a success=false body, whatever the
\* message of the error.
C4_PostFailuresAlike ==
    pc = "returned" /\ tool \in PostTools /\ (TransportFailure \/ SuccessFalse) =>
        result = post_tool_result(tool, args,
                    OutcomeOf("json", 200, "", Obj(<< <<"success", JBool(FALSE)>> >>)))

\* C5: for every tool that calls upstream, check_api_health included, a 2xx
\* body with success=false gives the result a transport failure gives.
C5_SuccessFalseIsFailure ==
    pc = "returned" /\ SuccessFalse =>
        \E msg \in TransportMessages :
            LET failed == OutcomeOf("transport", 0, msg, JNull)
            IN  IF tool \in GetTools
                THEN result = get_tool_result(tool, args, make_api_request(failed))
                ELSE result = post_tool_result(tool, args, failed)

\* The slug the spec derives: the slug field, else the last path segment of
\* the url cut at the first '?', else the id, else N/A.
SpecSlug(item) ==
    IF Truthy(GetNone(item, "slug")) THEN GetNone(item, "slug")
    ELSE IF Truthy(GetNone(item, "url"))
    THEN JStr(split_last(split_first(GetNone(item, "url").v, "?"), "/"))
    ELSE IF Truthy(GetNone(item, "id")) THEN GetNone(item, "id")
    ELSE JStr(NA)

\* The upstream answered search_anime with a list of exactly one summary item.
OneSummaryItem ==
    /\ pc = "returned"
    /\ tool = "search_anime"
    /\ outcome.kind = "json"
    /\ outcome.body \in {Ok(JList(<<item>>)) : item \in SummaryItems}

\* C6: the slug format_anime_item renders is the first available of slug, last
\* path segment of the url without its query, id, N/A.
C6_SlugDerivation ==
    OneSummaryItem =>
        /\ result.kind = "text"
        /\ Contains(result.text,
                    "Slug: " \o PyStr(SpecSlug(outcome.body.v.data.v[1]))
                    \o "  Use this for episode lookup")

\* The upstream answered mal_anime_details with a success object whose data
\* is an object.
MalDetailAnswered ==
    /\ pc = "returned"
    /\ tool = "mal_anime_details"
    /\ outcome.kind = "json"
    /\ outcome.body \in MalDetailBodies

\* C7: mal_anime_details renders a payload that lacks num_scoring_users or
\* num_list_users as a complete block with N/A in their place, and raises
\* nothing.
C7_MissingCountsRenderNA ==
    MalDetailAnswered =>
        LET data == outcome.body.v.data
        IN  /\ "num_scoring_users" \notin DOMAIN data.v =>
                /\ result.kind = "text"
                /\ Contains(result.text, "Scoring Users: N/A")
            /\ "num_list_users" \notin DOMAIN data.v =>
                /\ result.kind = "text"
                /\ Contains(result.text, "List Users: N/A")

\* The anime object format_anime_details reads from a success body: data.anime,
\* else data, else the body.
AnimeInfoOf(body) ==
    LET info == Get(body, "data", body)
    IN  IF IsDict(info) THEN Get(info, "anime", info) ELSE info

\* j is a list of str.
IsStrList(j) == j.t = "list" /\ \A i \in 1..Len(j.v) : IsStr(j.v[i])

\* The upstream answered get_anime_details with a success body whose anime
\* object has none of synopsis, genres and studios.
DetailLacksThree ==
    /\ pc = "returned"
    /\ tool = "get_anime_details"
    /\ outcome.kind = "json"
    /\ SuccessGate(outcome.body) = "ok"
    /\ IsDict(AnimeInfoOf(outcome.body))
    /\ DOMAIN AnimeInfoOf(outcome.body).v \cap {"synopsis", "genres", "studios"} = {}

FilterParam ==
    [anime_type |-> "type", status |-> "status", rated |-> "rated",
     season |-> "season", language |-> "language", sort |-> "sort"]

\* The request of the running call carries the value cs of the enumerated
\* argument f lower-cased and trimmed: as the last path segment, as a query
\* parameter or as a field of the JSON payload.
ForwardsNormalized(f, cs) ==
    LET member == strip(lower(cs))
        req == requests[1]
    IN  CASE tool = "get_anime_by_genre" -> req.path = "/api/genre/" \o Str(member)
          [] tool = "get_anime_by_type" -> req.path = "/api/type/" \o Str(member)
          [] tool = "filter_anime" ->
                /\ FilterParam[f] \in DOMAIN req.params
                /\ req.params[FilterParam[f]] = JStr(member)
          [] tool = "mal_ranking" -> req.params.type = JStr(member)
          [] tool = "mal_seasonal" -> req.params.season = JStr(member)
          [] tool = "mal_user_animelist" ->
                /\ "status" \in DOMAIN req.json
                /\ req.json.status = JStr(member)

\* filter_anime's score is absent or within 1..10.
ScoreInRange == tool = "filter_anime" => args.score = <<>> \/ args.score[1] \in 1..10

\* C9: in every tool, a value that is a vocabulary member once lower-cased and
\* trimmed is accepted, and the member is what the request carries.
C9_TrimmedValuesAccepted ==
    /\ tool \in DOMAIN EnumeratedArguments
    /\ ScoreInRange
    /\ \A f \in DOMAIN EnumeratedArguments[tool] : \A cs \in ValuesGiven(f) :
            IsMember(cs, EnumeratedArguments[tool][f])
    => /\ requests # <<>>
       /\ \A f \in DOMAIN EnumeratedArguments[tool] : \A cs \in ValuesGiven(f) :
            ForwardsNormalized(f, cs)

\* cs.split(sep)
RECURSIVE split(_, _)
split(cs, sep) ==
    IF \A i \in 1..Len(cs) : cs[i] # sep THEN <<cs>>
    ELSE <<split_first(cs, sep)>>
         \o split(SubSeq(cs, Len(split_first(cs, sep)) + 2, Len(cs)), sep)

\* C10: when an entry of filter_anime's comma-separated genres is no genre of
\* the vocabulary, the call returns a validation error that lists the genres
\* and issues no upstream request.
C10_GenresValidated ==
    /\ tool = "filter_anime"
    /\ args.genres # <<>>
    /\ args.genres[1] # <<>>
    /\ \E i \in 1..Len(split(args.genres[1], ",")) :
            ~IsMember(split(args.genres[1], ",")[i], AVAILABLE_GENRES)
    => /\ requests = <<>>
       /\ pc = "returned"
       /\ result.kind = "text"
       /\ Contains(result.text, join_comma(AVAILABLE_GENRES))

\* The tools that take a limit and clamp it, with the top of their range.
LimitTop ==
    [mal_search |-> 100, mal_ranking |-> 100, mal_seasonal |-> 100,
     combined_search |-> 20]

\* limit brought into 1..top.
Clamped(limit, top) == IF limit < 1 THEN 1 ELSE IF limit > top THEN top ELSE limit

\* The running call of a limit tool has an enumerated argument that is no
\* member of its vocabulary.
EnumeratedValueInvalid ==
    /\ tool \in DOMAIN EnumeratedArguments
    /\ \E f \in DOMAIN EnumeratedArguments[tool] : \E cs \in ValuesGiven(f) :
            ~IsMember(cs, EnumeratedArguments[tool][f])

\* C11: mal_search, mal_ranking and mal_seasonal forward max(1, min(100, limit))
\* and combined_search forwards max(1, min(20, limit)); whatever the limit, the
\* call is not turned down for it.
C11_LimitClamped ==
    tool \in DOMAIN LimitTop =>
        /\ requests = <<>> => EnumeratedValueInvalid
        /\ requests # <<>> =>
            /\ Len(requests) = 1
            /\ requests[1].params.limit = JInt(Clamped(args.limit, LimitTop[tool]))

\* A ranking call with limit 500 has sent limit 100.
C11_Witness ==
    /\ tool = "mal_ranking"
    /\ pc = "returned"
    /\ args.limit = 500
    /\ requests # <<>>
    /\ requests[1].params.limit = JInt(100)

\* C12: no tool forwards a page or a limit below 1 as the caller gave it: the
\* page of the browse, search and filter tools and the limit of
\* mal_user_animelist reach upstream clamped.
C12_PageAndLimitClamped ==
    requests # <<>> =>
        /\ (requests[1].method = "GET" /\ "page" \in DOMAIN requests[1].params) =>
                requests[1].params.page.v >= 1
        /\ tool = "mal_user_animelist" => requests[1].json.limit.v >= 1

\* The running call of filter_anime was given a score outside 1..10.
ScoreOutOfRange == args.score # <<>> /\ args.score[1] \notin 1..10

\* What C13 says of a score inside 1..10 and of an omitted score: a request of
\* the call carries the score as given, or no score parameter.
ScoreForwarded ==
    requests # <<>> =>
        IF args.score = <<>>
        THEN "score" \notin DOMAIN requests[1].params
        ELSE /\ "score" \in DOMAIN requests[1].params
             /\ requests[1].params.score = JInt(args.score[1])

\* C13 as the spec states it: every score outside 1..10 is rejected with the
\* text 'Score must be between 1 and 10.' and no upstream request; a score
\* inside 1..10 is forwarded as given; an omitted score adds no parameter.
C13_ScoreRejectedWithFixedText ==
    tool = "filter_anime" =>
        /\ ScoreOutOfRange =>
            /\ requests = <<>>
            /\ pc = "returned"
            /\ result = Text("Score must be between 1 and 10.")
        /\ ScoreForwarded

\* C13, amended: a score outside 1..10 ends the call without an upstream
\* request, with the text 'Score must be between 1 and 10.' unless type,
\* status or rated, which are checked before it, is turned down (then with that
\* argument's validation error); a score inside 1..10 is forwarded as given and
\* an omitted score adds no parameter.
C13_ScoreChecked ==
    tool = "filter_anime" =>
        /\ ScoreOutOfRange =>
            /\ requests = <<>>
            /\ pc = "returned"
            /\ result.kind = "text"
            /\ IF CheckedFirst("score")
               THEN result.text = "Score must be between 1 and 10."
               ELSE StartsWith(result.text, "Invalid")
        /\ ScoreForwarded

\* filter_anime was called with score 0 and nothing else and has returned the
\* fixed text without a request.
C13_Witness ==
    /\ tool = "filter_anime"
    /\ pc = "returned"
    /\ args.score = <<0>>
    /\ args.anime_type = <<>>
    /\ requests = <<>>
    /\ result.text = "Score must be between 1 and 10."

\* The 52 letters A-Z and a-z and the letter U+00DF: the alphabetic characters
\* among the inputs.
Alphabetic ==
    {UpperLetters[i] : i \in 1..26} \cup {LowerLetters[i] : i \in 1..26} \cup {SharpS}

\* The running call of get_anime_az_list took its letter: it issued a request.
LetterAccepted == requests # <<>>

\* The running call of get_anime_az_list turned its letter down.
LetterTurnedDown ==
    /\ requests = <<>>
    /\ pc = "returned"
    /\ result = Text("Invalid letter. Please provide a single letter A-Z or 'other' for non-alphabetic titles.")

\* C14 as the spec states it: the letter is accepted exactly when, trimmed, it
\* is one alphabetic character or 'other' in any case; every other value
\* returns the validation text without a request.
C14_OneAlphabeticCharacterAccepted ==
    tool = "get_anime_az_list" =>
        LET trimmed == strip(args.letter)
        IN  IF \/ Len(trimmed) = 1 /\ trimmed[1] \in Alphabetic
               \/ lower(trimmed) = S_other
            THEN LetterAccepted
            ELSE LetterTurnedDown

\* C14, amended: the letter is accepted exactly when its upper-cased and
\* trimmed form is one alphabetic character or 'OTHER'; every other value
\* returns the validation text without a request.
C14_UpperCasedLetterAccepted ==
    tool = "get_anime_az_list" =>
        LET upper_cased == strip(upper(args.letter))
        IN  IF \/ Len(upper_cased) = 1 /\ upper_cased[1] \in Alphabetic
               \/ upper_cased = <<"O", "T", "H", "E", "R">>
            THEN LetterAccepted
            ELSE LetterTurnedDown

\* get_anime_az_list has turned down the digit '1' without a request.
C14_Witness ==
    /\ tool = "get_anime_az_list"
    /\ args.letter = <<"1">>
    /\ LetterTurnedDown

\* C15: combined_search issues two upstream calls, one per provider, and when
\* a call fails the result still renders a provider's section and is not the
\* generic failure text.
C15_CombinedFansOut ==
    (tool = "combined_search" /\ pc = "returned") =>
        /\ Len(requests) = 2
        /\ requests[1].path # requests[2].path
        /\ TransportFailure =>
            /\ result.kind = "text"
            /\ Contains(result.text, "Results:**")
            /\ ~StartsWith(result.text, "Unable to perform combined search")

\* One provider's part of the answer combined_search got: the list under key,
\* an empty list when the key is absent.
ProviderSide(key) ==
    IF "data" \in DOMAIN outcome.body.v /\ IsDict(outcome.body.v.data)
       /\ key \in DOMAIN outcome.body.v.data.v
    THEN outcome.body.v.data.v[key]
    ELSE JList(<<>>)

SideEmpty(j) == j = JNull \/ j = JList(<<>>)

\* A non-empty list of items of the shape the provider documents.
SideFilled(j, items) ==
    /\ j.t = "list"
    /\ j.v # <<>>
    /\ \A i \in 1..Len(j.v) : j.v[i] \in items

\* combined_search has returned after a successful answer in which exactly one
\* provider's list is empty or absent.
OneSideEmpty ==
    /\ tool = "combined_search"
    /\ pc = "returned"
    /\ outcome.kind = "json"
    /\ SuccessGate(outcome.body) = "ok"
    /\ "data" \in DOMAIN outcome.body.v
    /\ IsDict(outcome.body.v.data)
    /\ \/ /\ SideEmpty(ProviderSide("hianime"))
          /\ SideFilled(ProviderSide("mal"), {MalItem, RankedItem})
       \/ /\ SideEmpty(ProviderSide("mal"))
          /\ SideFilled(ProviderSide("hianime"), SummaryItems \cup {FullItem})

\* C16: when one provider's list is empty or absent and the other's is not,
\* the output has both section headings, the items of the non-empty side as
\* rendered, and the line 'No results from HiAnime.' or 'No results from MAL.'
\* for the empty side.
C16_EmptySideNamed ==
    OneSideEmpty =>
        /\ result.kind = "text"
        /\ Contains(result.text, "**HiAnime Results:**")
        /\ Contains(result.text, "**MyAnimeList Results:**")
        /\ IF SideEmpty(ProviderSide("hianime"))
           THEN /\ Contains(result.text, "No results from HiAnime.")
                /\ ~Contains(result.text, "No results from MAL.")
                /\ Contains(result.text, format_mal_anime_list(ProviderSide("mal")).text)
           ELSE /\ Contains(result.text, "No results from MAL.")
                /\ ~Contains(result.text, "No results from HiAnime.")
                /\ Contains(result.text, format_anime_list(ProviderSide("hianime")).text)

\* combined_search has returned for an answer with two HiAnime items and an
\* empty MAL list.
C16_Witness ==
    /\ OneSideEmpty
    /\ ProviderSide("mal") = JList(<<>>)
    /\ Len(ProviderSide("hianime").v) = 2
    /\ Contains(result.text, "No results from MAL.")

\* The places of text where part begins.
Occurrences(text, part) ==
    {i \in 1..(Len(text) - Len(part) + 1) : SubSeq(text, i, i + Len(part) - 1) = part}

\* The first place of text where part begins; part occurs in text.
FirstAt(text, part) ==
    CHOOSE i \in Occurrences(text, part) : \A j \in Occurrences(text, part) : i <= j

EndsWith(text, part) ==
    Len(text) >= Len(part) /\ SubSeq(text, Len(text) - Len(part) + 1, Len(text)) = part

\* The beginning of the entry format_episode_list writes for an episode.
EntryLabel(ep) == "   Episode " \o IntStr(ep.v.number.v) \o ":"

\* get_anime_episodes has returned after a successful answer whose data is a
\* non-empty list of episodes with distinct numbers.
EpisodesAnswered ==
    /\ tool = "get_anime_episodes"
    /\ pc = "returned"
    /\ outcome.kind = "json"
    /\ SuccessGate(outcome.body) = "ok"
    /\ "data" \in DOMAIN outcome.body.v
    /\ outcome.body.v.data.t = "list"
    /\ outcome.body.v.data.v # <<>>
    /\ LET eps == outcome.body.v.data.v
       IN  /\ \A i \in 1..Len(eps) :
                /\ IsDict(eps[i])
                /\ "number" \in DOMAIN eps[i].v
                /\ IsInt(eps[i].v.number)
           /\ \A i, j \in 1..Len(eps) : eps[i].v.number = eps[j].v.number => i = j

\* C17: of n episodes the first min(n, 20) are rendered, in input order, and
\* no other; for n > 20 the text ends with '... and (n - 20) more episodes.',
\* for n <= 20 it has no such suffix.
C17_EpisodesTruncated ==
    EpisodesAnswered =>
        LET eps == outcome.body.v.data.v
            n == Len(eps)
            shown == IF n < 20 THEN n ELSE 20
        IN  /\ result.kind = "text"
            /\ Cardinality(Occurrences(result.text, "   Episode ")) = shown
            /\ \A i \in 1..n : Contains(result.text, EntryLabel(eps[i])) <=> i <= shown
            /\ \A i \in 1..(shown - 1) :
                    FirstAt(result.text, EntryLabel(eps[i]))
                        < FirstAt(result.text, EntryLabel(eps[i + 1]))
            /\ IF n > 20
               THEN EndsWith(result.text,
                             "\n\n... and " \o IntStr(n - 20) \o " more episodes.")
               ELSE ~Contains(result.text, "more episodes")

\* get_anime_episodes has rendered a list of 25 episodes: 20 entries and the
\* suffix for the other 5.
C17_Witness ==
    /\ EpisodesAnswered
    /\ Len(outcome.body.v.data.v) = 25
    /\ Cardinality(Occurrences(result.text, "   Episode ")) = 20
    /\ EndsWith(result.text, "... and 5 more episodes.")

\* get_anime_episodes has rendered a list of exactly 20 episodes.
C17_WitnessAtCutoff ==
    /\ EpisodesAnswered
    /\ Len(outcome.body.v.data.v) = 20
    /\ Cardinality(Occurrences(result.text, "   Episode ")) = 20

\* The tools that render a collection of the answer.
ListTools ==
    DOMAIN BrowseTools
    \cup {"search_anime", "get_anime_by_genre", "get_anime_by_type", "get_anime_az_list",
          "get_anime_by_producer", "filter_anime", "get_anime_episodes", "mal_search",
          "mal_ranking", "mal_seasonal", "mal_user_animelist", "combined_search"}

\* A list tool has returned after a successful answer whose collection is
\* empty: data is [], and for combined_search both providers' lists are [].
EmptyAnswered ==
    /\ tool \in ListTools
    /\ pc = "returned"
    /\ outcome.kind = "json"
    /\ SuccessGate(outcome.body) = "ok"
    /\ "data" \in DOMAIN outcome.body.v
    /\ IF tool = "combined_search"
       THEN outcome.body.v.data =
                Obj(<< <<"hianime", JList(<<>>)>>, <<"mal", JList(<<>>)>> >>)
       ELSE outcome.body.v.data = JList(<<>>)

\* text has a sentence of the form 'No ... found': a "No " with a " found"
\* after it.
NoFoundSentence(text) ==
    \E i \in Occurrences(text, "No ") : Contains(SubSeq(text, i, Len(text)), " found")

\* C18 as the spec states it: on an empty collection every list tool's output
\* has a sentence of the form 'No ... found.'.
C18_EmptyRendersNoFound ==
    EmptyAnswered => result.kind = "text" /\ NoFoundSentence(result.text)

\* The sentence each list tool writes for an empty collection, up to the
\* argument it names.
EmptySentence ==
    CASE tool = "mal_ranking" -> "No rankings available."
      [] tool = "combined_search" -> "   No results from HiAnime.\n"
      [] tool = "search_anime" -> "No anime found for '"
      [] tool = "mal_search" -> "No anime found on MAL for '"
      [] tool = "mal_seasonal" -> "No anime found for "
      [] tool = "mal_user_animelist" -> "No anime found in your list"
      [] tool = "get_anime_episodes" -> "No episodes found."
      [] OTHER -> "No anime found."

\* C18, amended: on an empty collection every list tool's output has a fixed
\* sentence and is no empty block: one of the form 'No ... found', except that
\* mal_ranking says 'No rankings available.' and combined_search says
\* 'No results from HiAnime.' and 'No results from MAL.'.
C18_EmptyRendersFixedSentence ==
    EmptyAnswered =>
        /\ result.kind = "text"
        /\ Contains(result.text, EmptySentence)
        /\ tool = "combined_search" => Contains(result.text, "   No results from MAL.\n")
        /\ tool \notin {"mal_ranking", "combined_search"} => NoFoundSentence(result.text)

\* get_anime_episodes has returned 'No episodes found.' under its heading for
\* an empty episode list.
C18_Witness ==
    /\ EmptyAnswered
    /\ tool = "get_anime_episodes"
    /\ Contains(result.text, "No episodes found.")

\* The POST was answered 2xx with a JSON object whose success is truthy.
SuccessTruthy ==
    /\ outcome.kind = "json"
    /\ IsDict(outcome.body)
    /\ "success" \in DOMAIN outcome.body.v
    /\ Truthy(outcome.body.v.success)

\* Upstream turned the exchange down: a non-2xx status, or a 2xx body whose
\* success is false.
ExchangeRejected == outcome.kind = "status" \/ SuccessFalse

\* The text shows a token upstream may issue.
ShowsToken(text) ==
    Contains(text, Str(S_access_token)) \/ Contains(text, Str(S_refresh_token))

\* C19: mal_exchange_token renders 'Token Exchange Successful' only after a
\* 2xx answer with a truthy success; a rejected exchange gives a failure text
\* without a token; and the tool does not judge code_verifier itself: it sends
\* the value it was given and renders whatever upstream answers.
C19_ExchangeNeverSilentlySucceeds ==
    (tool = "mal_exchange_token" /\ pc = "returned") =>
        /\ Len(requests) = 1
        /\ requests[1].method = "POST"
        /\ requests[1].json.code_verifier = JStr(args.code_verifier)
        /\ requests[1].json.code = JStr(args.code)
        /\ (result.kind = "text" /\ Contains(result.text, "Token Exchange Successful"))
                => SuccessTruthy
        /\ ExchangeRejected =>
            /\ result.kind = "text"
            /\ StartsWith(result.text, "Unable to exchange token.")
            /\ ~ShowsToken(result.text)
        /\ (SuccessTruthy /\ IsDict(Get(outcome.body, "data", JObj(<<>>)))) =>
            /\ result.kind = "text"
            /\ Contains(result.text, "Token Exchange Successful")

\* mal_exchange_token has returned the failure text for a 2xx answer whose
\* success is false although its data carries tokens.
C19_Witness ==
    /\ tool = "mal_exchange_token"
    /\ pc = "returned"
    /\ SuccessFalse
    /\ "data" \in DOMAIN outcome.body.v
    /\ IsDict(outcome.body.v.data)
    /\ "access_token" \in DOMAIN outcome.body.v.data.v
    /\ result = Text("Unable to exchange token. Please check your credentials and try again.")

\* The arguments of the OAuth tools that carry a secret.
SecretArguments == {"client_secret", "code", "code_verifier", "access_token"}

\* The text of the running call's argument f; client_secret is optional.
SecretText(f) ==
    IF f = "client_secret"
    THEN (IF args[f] = <<>> THEN "" ELSE Str(args[f][1]))
    ELSE Str(args[f])

\* The secrets the running call received, and those upstream issues.
ReceivedSecrets ==
    {SecretText(f) : f \in DOMAIN args \cap SecretArguments} \ {""}

IssuedSecrets == {Str(S_access_token), Str(S_refresh_token), Str(S_code_verifier)}

\* C20: no line an OAuth tool logs shows a client_secret, code_verifier,
\* authorization code, access token or refresh token; the secrets a call
\* received are in its request body only, not in the URL, the query or the
\* returned text; and once the call is over nothing of it is kept.
C20_SecretsNotKept ==
    /\ tool \in PostTools =>
        /\ \A i \in 1..Len(log) : \A secret \in ReceivedSecrets \cup IssuedSecrets :
                ~Contains(log[i], secret)
        /\ requests # <<>> =>
            /\ requests[1].params = <<>>
            /\ \A secret \in ReceivedSecrets : ~Contains(requests[1].path, secret)
        /\ (pc = "returned" /\ result.kind = "text") =>
                \A secret \in ReceivedSecrets : ~Contains(result.text, secret)
    /\ pc = "idle" =>
        /\ tool = "" /\ args = <<>> /\ requests = <<>>
        /\ outcome = NoOutcome /\ result = NoResult /\ log = <<>>

\* mal_exchange_token, given a client_secret, has returned after a non-2xx
\* answer and has logged its two lines.
C20_Witness ==
    /\ tool = "mal_exchange_token"
    /\ pc = "returned"
    /\ outcome.kind = "status"
    /\ args.client_secret = <<S_client_secret>>
    /\ requests[1].json.client_secret = JStr(S_client_secret)
    /\ Len(log) = 2

\* The texts with which a tool turns an argument down.
ValidationErrorText(text) ==
    StartsWith(text, "Invalid ") \/ text = "Score must be between 1 and 10."

\* C21: a tool invocation issues at most one upstream request, and
\* get_available_filters and every call that ends in a validation error issue
\* none.
C21_AtMostOneRequest ==
    /\ Len(requests) <= 1
    /\ tool = "get_available_filters" => requests = <<>>
    /\ (pc = "returned" /\ result.kind = "text" /\ ValidationErrorText(result.text))
            => requests = <<>>
    /\ pc = "returned" /\ requests # <<>> => outcome # NoOutcome

\* get_anime_by_genre has turned its genre down and has issued no request.
C21_Witness ==
    /\ tool = "get_anime_by_genre"
    /\ pc = "returned"
    /\ StartsWith(result.text, "Invalid genre")
    /\ requests = <<>>

\* The steps a call may take: from being received either to a request in
\* flight or straight to its return, from the request to its answer, from the
\* answer to the return, and once returned only on to the next call; what a
\* call returns is a text.
CallOrder ==
    /\ pc = "idle" => pc' \in {"awaiting", "returned"}
    /\ pc = "awaiting" => pc' = "answered" /\ result' = NoResult
    /\ pc = "answered" => pc' = "returned"
    /\ pc = "returned" => pc' = "idle"
    /\ pc' = "returned" => result'.kind = "text"

\* A call in progress can go on: a request in flight can be answered (at the
\* latest by its timeout), and an answered call is one of a tool that resumes
\* and returns.
CallNeverStuck ==
    /\ pc = "awaiting" => ENABLED upstream_answers
    /\ pc = "answered" => tool \in GetTools \cup PostTools

\* C22: every call goes through its phases in order and returns, once, a
\* text; no call stays suspended and none returns twice.
C22_CallReturnsOneText == [][CallOrder]_vars /\ []CallNeverStuck

\* The phases of a call without regard to what it returns: a text or an
\* exception.
CallPhases ==
    [][/\ pc = "idle" => pc' \in {"awaiting", "returned"}
       /\ pc = "awaiting" => pc' = "answered" /\ result' = NoResult
       /\ pc = "answered" => pc' = "returned"
       /\ pc = "returned" => pc' = "idle"
       /\ pc' = "returned" => result'.kind \in {"text", "raise"}]_vars

\* What a call of tool t with arguments a returns when it runs alone and its
\* exchange, if it makes one, ends in o.
AloneResult(t, a, o) ==
    IF validation_error(t, a) # ""
    THEN Text(validation_error(t, a))
    ELSE tool_result(t, a, o)

\* Call c ended without a rendered answer: it turned its arguments down, its
\* exchange failed, or it raised.
CallFailed(c) ==
    /\ pc[c] = "returned"
    /\ \/ requests[c] = <<>>
       \/ outcome[c].kind # "json"
       \/ result[c].kind = "raise"

SameGetCall(c, d) ==
    /\ c # d
    /\ pc[c] = "returned" /\ pc[d] = "returned"
    /\ tool[c] \in GetTools
    /\ tool[c] = tool[d]
    /\ args[c] = args[d]
    /\ outcome[c] = outcome[d]

EpisodeInfoAnswered ==
    /\ tool = "get_episode_info"
    /\ pc = "returned"
    /\ outcome.kind = "json"
    /\ SuccessGate(outcome.body) = "ok"
    /\ "data" \in DOMAIN outcome.body.v
    /\ outcome.body.v.data.t = "list"
    /\ \A i \in 1..Len(outcome.body.v.data.v) : IsDict(outcome.body.v.data.v[i])

\* The places of the entries of eps whose number field is the int n.
Numbered(eps, n) ==
    {i \in 1..Len(eps) : "number" \in DOMAIN eps[i].v /\ eps[i].v.number = JInt(n)}

\* C25: get_episode_info returns the details of the first entry whose number
\* is the requested one; when there is none it returns the not-found text with
\* the number, the slug, the count of episodes and the range 1 to the count,
\* and no episode's details.
C25_FirstMatchOrNotFound ==
    EpisodeInfoAnswered =>
        LET eps == outcome.body.v.data.v
            hits == Numbered(eps, args.episode_number)
        IN  /\ result.kind = "text"
            /\ IF hits # {}
               THEN LET first == CHOOSE i \in hits : \A j \in hits : i <= j
                    IN  /\ Contains(result.text,
                                    "**" \o Str(args.slug) \o " - Episode "
                                    \o IntStr(args.episode_number) \o "**")
                        /\ Contains(result.text,
                                    "**Title:** "
                                    \o PyStr(Get(eps[first], "title", JStr(NA))) \o "\n")
                        /\ ~Contains(result.text, "not found")
               ELSE /\ result.text =
                            "Episode " \o IntStr(args.episode_number) \o " not found for '"
                            \o Str(args.slug) \o "'. This anime has " \o IntStr(Len(eps))
                            \o " episodes (1-" \o IntStr(Len(eps)) \o ")."
                    /\ ~Contains(result.text, "**Title:**")

\* get_episode_info has returned the details of the first of two entries
\* numbered 1.
C25_Witness ==
    /\ EpisodeInfoAnswered
    /\ args.episode_number = 1
    /\ Cardinality(Numbered(outcome.body.v.data.v, 1)) = 2
    /\ Contains(result.text, "**Title:** " \o Str(S_title) \o "\n")

\* C26: the path segment get_anime_az_list sends for a letter it accepts is
\* one upper-case letter or exactly 'other', whatever whitespace or casing the
\* caller used.
C26_LetterSegmentNormalized ==
    (tool = "get_anime_az_list" /\ requests # <<>>) =>
        requests[1].path \in
            {"/api/az/" \o UpperLetters[i] : i \in 1..26} \cup {"/api/az/other"}

\* get_anime_episodes, given the answer get_episode_info got, lists the
\* requested number: the list of the same data has an entry 'Episode k:' for
\* k the requested episode_number.
ListedByEpisodeList ==
    LET listing == format_episode_list(outcome.body.v.data)
    IN  /\ listing.kind = "text"
        /\ Contains(listing.text, "   Episode " \o IntStr(args.episode_number) \o ":")

\* C27: an episode that get_anime_episodes renders as 'Episode k' for an
\* answer is found by get_episode_info(slug, k) for the same answer, which
\* returns its details and not the not-found text.
C27_ListedEpisodeFound ==
    (EpisodeInfoAnswered /\ ListedByEpisodeList) =>
        /\ result.kind = "text"
        /\ Contains(result.text, "**Title:**")
        /\ ~Contains(result.text, "not found")

=============================================================================
